---- MODULE Spec2Model ----
(***************************************************************************)
(* A model of the optimizer's solver core: the feasibility evaluator       *)
(* (pkg/core/allocation.go) and the capacity-constrained greedy allocator  *)
(* with its saturation policies (pkg/solver, greedy).                      *)
(*                                                                         *)
(* Numbers.  Costs, values and times are integers.  Arrival rates are kept *)
(* in requests per minute (the unit of Allocation.MaxRPM) rather than in   *)
(* requests per millisecond, so that they stay integers; the conversion    *)
(* factors 60 and 1000 of the code appear where the code has them.         *)
(* Pointers.  An *Allocation is a reference [owner, acc] to the object     *)
(* held in allAllocs[owner][acc]; a write through one reference is seen    *)
(* through every other one, as in the code.                                *)
(***************************************************************************)
EXTENDS Integers, Sequences, FiniteSets, TLC

VARIABLES
    accelerators,   \* registry: accelerator name -> [type, multiplicity, cost]
    capacity,       \* registry: accelerator type -> count (a Go map: a partial function)
    models,         \* registry: model name -> (accelerator name -> perf data)
    serviceClasses, \* registry: class name -> [priority, targets: model -> target]
    servers,        \* registry: server name -> [class, model, minNumReplicas, maxBatchSize, load]
    oracle,         \* answers of the external queue-analysis library, per accelerator
    allAllocs,      \* server name -> (accelerator name -> Allocation): the candidates
    allocation,     \* server name -> reference to the server's allocation, or NilRef
    policy,         \* optimizerSpec.SaturationPolicy
    pc,             \* position of the running procedure
    available,      \* SolveGreedy's local copy of the capacities
    entries,        \* SolveGreedy's residual list of server entries
    unallocated,    \* SolveGreedy's unallocatedServers
    sat,            \* loop state of the saturation procedures
    out             \* the call made last on the evaluator and what it returned

vars == <<accelerators, capacity, models, serviceClasses, servers, oracle,
          allAllocs, allocation, policy, pc, available, entries, unallocated,
          sat, out>>

dataVars == <<accelerators, capacity, models, serviceClasses, servers, oracle>>

----------------------------------------------------------------------------
(* Bounds of the model *)

\* largest count of a capacity entry
MaxCap == 6
\* arrival rates are 0, 60, ..., 60 * MaxLoad requests per minute
MaxLoad == 4
\* largest minNumReplicas of a server
MaxMinReplicas == 2
\* the count of the G2 capacity entry, when there is one
MaxCapG2 == 2

----------------------------------------------------------------------------
(* Configuration constants, pkg/config *)

\* config.Delta, in thousandths
DeltaPerMille == 1
\* config.StabilitySafetyFraction, in thousandths
StabilitySafetyPerMille == 100
\* stands for math.MaxFloat32: above every value difference of the model
MaxFloat32 == 1000000

----------------------------------------------------------------------------
(* Helpers *)

Min(a, b) == IF a <= b THEN a ELSE b
Max(a, b) == IF a >= b THEN a ELSE b

\* math.Ceil(a / b) for a >= 0 and b > 0
CeilDiv(a, b) == (a + b - 1) \div b

\* m[k] of a Go map of ints: the zero value when the key is absent
MapGet(m, k) == IF k \in DOMAIN m THEN m[k] ELSE 0

\* m[k] = v on a Go map: the key is created when absent
MapPut(m, k, v) == [x \in DOMAIN m \cup {k} |-> IF x = k THEN v ELSE m[x]]

\* the sequence s without its first element
Tail1(s) == SubSeq(s, 2, Len(s))

\* slices.Insert(s, i, e) with a 0-based index i
SliceInsert(s, i, e) == SubSeq(s, 1, i) \o <<e>> \o SubSeq(s, i + 1, Len(s))

\* all orders in which the elements of the finite set S can be listed
Perms(S) ==
    {q \in [1..Cardinality(S) -> S] : \A i, j \in 1..Cardinality(S) : i # j => q[i] # q[j]}

----------------------------------------------------------------------------
(* References to Allocation objects *)

NilRef == [owner |-> "", acc |-> ""]
\* an allocation left on the server by an earlier solve or by the loader
StaleRef == [owner |-> "", acc |-> "stale"]
Ref(s, g) == [owner |-> s, acc |-> g]

\* Server.RemoveAllocation()
RemoveAllocation(alloc, s) == [alloc EXCEPT ![s] = NilRef]
\* Server.SetAllocation(a)
SetAllocation(alloc, s, r) == [alloc EXCEPT ![s] = r]

\* Model.NumInstances(acc): accelerator units per replica
NumInstances(modelName, gName) ==
    IF modelName \in DOMAIN models /\ gName \in DOMAIN models[modelName]
          /\ gName \in DOMAIN accelerators
    THEN models[modelName][gName].accCount * accelerators[gName].multiplicity
    ELSE 0

\* Server.Priority(): the priority of the server's service class
Priority(s) ==
    IF servers[s].class \in DOMAIN serviceClasses
    THEN serviceClasses[servers[s].class].priority
    ELSE 100

----------------------------------------------------------------------------
(* The external queue-analysis library, by its contract.  Its answers for  *)
(* the queue of an accelerator are given by oracle[g]:                     *)
(*   serv, wait : what utils.BinarySearch returns for the service-time and *)
(*                waiting-time evaluators, [kind, pos] with kind "ok"      *)
(*                (a rate found, at pos/OracleGrid of the upper bound),    *)
(*                "below" (ind < 0: the limit is unattainable) or "err";   *)
(*   rho, avgServTime, avgWaitTime : the statistics of a solved queue.     *)

\* rates the root finder can return: hi * pos / OracleGrid, pos in 1..OracleGrid
OracleGrid == 2

\* utils.BinarySearch(lo, hi, target, eval): (lambda, ind, err)
BinarySearch(lo, hi, ans) ==
    IF ans.kind = "err" THEN [lambda |-> 0, ind |-> 0, err |-> TRUE]
    ELSE IF ans.kind = "below" THEN [lambda |-> lo, ind |-> -1, err |-> FALSE]
    ELSE [lambda |-> Max(lo, (hi * ans.pos) \div OracleGrid),
          ind |-> IF ans.pos = OracleGrid THEN 1 ELSE 0, err |-> FALSE]

\* servRate[n-1] of CreateAllocation, in requests per minute
ServRate(perf, n, K) == (n * 60 * 1000) \div ((perf.alpha + perf.beta * n) * K)

----------------------------------------------------------------------------
(* pkg/core/allocation.go *)

\* faulty variant of zeroLoadAllocation: a throughput target adds a replica
zeroLoadAllocationByTarget(serverName, gName) ==
    LET server == servers[serverName]
        perf == models[server.model][gName]
        target == serviceClasses[server.class].targets[server.model]
        maxBatchSize == IF server.maxBatchSize > 0 THEN server.maxBatchSize
                        ELSE perf.maxBatchSize
        numReplicas == server.minNumReplicas + (IF target.TPS > 0 THEN 1 ELSE 0)
        cost == accelerators[gName].cost * NumInstances(server.model, gName) * numReplicas
    IN  [accelerator |-> gName, numReplicas |-> numReplicas, batchSize |-> maxBatchSize,
         cost |-> cost, value |-> cost, servTime |-> perf.alpha + perf.beta,
         waitTime |-> 0, rho |-> 0,
         maxArrvRatePerReplica |->
            (maxBatchSize * 60 * 1000) \div (perf.alpha + perf.beta * maxBatchSize)]

\* zeroLoadAllocation(server, model, acc, perf)
zeroLoadAllocation(serverName, gName) ==
    LET server == servers[serverName]
        perf == models[server.model][gName]
        maxBatchSize == IF server.maxBatchSize > 0 THEN server.maxBatchSize
                        ELSE perf.maxBatchSize
        numReplicas == server.minNumReplicas
        totalNumInstances == NumInstances(server.model, gName) * numReplicas
        cost == accelerators[gName].cost * totalNumInstances
        servTime == perf.alpha + perf.beta
        minServTime == perf.alpha + perf.beta * maxBatchSize
    IN  [accelerator |-> gName, numReplicas |-> numReplicas, batchSize |-> maxBatchSize,
         cost |-> cost, value |-> cost, servTime |-> servTime, waitTime |-> 0, rho |-> 0,
         maxArrvRatePerReplica |-> (maxBatchSize * 60 * 1000) \div minServTime]

\* faulty variant of TotalLambda: the throughput target is not looked at
TotalLambdaOfLoad(target, load) == [num |-> load.arrivalRate, den |-> 1]

\* totalLambda of "calculate number of replicas", as the fraction num / den of
\* requests per minute: load.ArrivalRate when there is no throughput target,
\* target.TPS / K per second otherwise
TotalLambda(target, load) ==
    IF target.TPS = 0
    THEN [num |-> load.arrivalRate, den |-> 1]
    ELSE [num |-> target.TPS * 60, den |-> load.avgLength]

\* faulty variant of NumReplicas: minNumReplicas is not looked at
NumReplicasNoMin(total, lambdaStar, minNumReplicas) ==
    CeilDiv(total.num, total.den * lambdaStar)

\* numReplicas := max(int(math.Ceil(totalLambda / lambdaStar)), server.minNumReplicas)
NumReplicas(total, lambdaStar, minNumReplicas) ==
    Max(CeilDiv(total.num, total.den * lambdaStar), minNumReplicas)

\* CreateAllocation from "calculate max batch size" on: the load is positive
positiveLoadAllocation(serverName, gName) ==
    LET server == servers[serverName]
        load == server.load
        perf == models[server.model][gName]
        target == serviceClasses[server.class].targets[server.model]
        K == load.avgLength
        N == IF server.maxBatchSize > 0 THEN server.maxBatchSize
             ELSE Max((perf.maxBatchSize * perf.atTokens) \div K, 1)
        lambdaMin == (ServRate(perf, 1, K) * DeltaPerMille) \div 1000
        lambdaMax == (ServRate(perf, N, K) * (1000 - DeltaPerMille)) \div 1000
        bsServ == BinarySearch(lambdaMin, lambdaMax, oracle[gName].serv)
        bsWait == BinarySearch(lambdaMin, lambdaMax, oracle[gName].wait)
        lambdaStarService == IF target.ITL > 0 THEN bsServ.lambda ELSE lambdaMax
        lambdaStarWait == IF target.TTW > 0 THEN bsWait.lambda ELSE lambdaMax
        lambdaStarThroughput ==
            IF target.TPS > 0
            THEN (lambdaMax * (1000 - StabilitySafetyPerMille)) \div 1000
            ELSE lambdaMax
        lambdaStar == Min(Min(lambdaStarService, lambdaStarWait), lambdaStarThroughput)
        total == TotalLambda(target, load)
        numReplicas == NumReplicas(total, lambdaStar, server.minNumReplicas)
        totalNumInstances == NumInstances(server.model, gName) * numReplicas
        cost == accelerators[gName].cost * totalNumInstances
    IN  IF target.ITL > 0 /\ (bsServ.err \/ bsServ.ind < 0) THEN {}
        ELSE IF target.TTW > 0 /\ (bsWait.err \/ bsWait.ind < 0) THEN {}
        ELSE {[accelerator |-> gName, numReplicas |-> numReplicas, batchSize |-> N,
               cost |-> cost, value |-> cost,
               servTime |-> oracle[gName].avgServTime \div K,
               waitTime |-> oracle[gName].avgWaitTime, rho |-> oracle[gName].rho,
               maxArrvRatePerReplica |-> lambdaStar]}

\* faulty variant of ValidLoad: a negative arrival rate is let through
ValidLoadAnyRate(load) == load.present /\ load.avgLength >= 0

\* the load CreateAllocation goes on with: not nil, no negative field
ValidLoad(load) == load.present /\ load.arrivalRate >= 0 /\ load.avgLength >= 0

\* CreateAllocation(serverName, gName): the set holding the allocation, {} for nil
CreateAllocation(serverName, gName) ==
    IF gName \notin DOMAIN accelerators THEN {}
    ELSE IF serverName \notin DOMAIN servers THEN {}
    ELSE IF ~ValidLoad(servers[serverName].load) THEN {}
    ELSE IF servers[serverName].model \notin DOMAIN models THEN {}
    ELSE IF gName \notin DOMAIN models[servers[serverName].model] THEN {}
    ELSE IF servers[serverName].class \notin DOMAIN serviceClasses THEN {}
    ELSE IF servers[serverName].model
               \notin DOMAIN serviceClasses[servers[serverName].class].targets THEN {}
    ELSE IF servers[serverName].load.arrivalRate = 0
            \/ servers[serverName].load.avgLength = 0
         THEN {zeroLoadAllocation(serverName, gName)}
    ELSE positiveLoadAllocation(serverName, gName)

----------------------------------------------------------------------------
(* pkg/solver: SolveGreedy, main pass *)

\* the Allocation object a reference points to
Obj(r) == allAllocs[r.owner][r.acc]

\* cmp.Compare
Compare(x, y) == IF x < y THEN -1 ELSE IF x > y THEN 1 ELSE 0

\* faulty variant of orderFunc: the larger priority number goes first
orderFuncLargerFirst(a, b) ==
    IF a.priority = b.priority
    THEN IF a.delta = b.delta
         THEN Compare(Obj(b.allocations[b.curIndex + 1]).value,
                      Obj(a.allocations[a.curIndex + 1]).value)
         ELSE Compare(b.delta, a.delta)
    ELSE Compare(b.priority, a.priority)

\* faulty variant of orderFunc: the priorities are not compared
orderFuncByDelta(a, b) ==
    IF a.delta = b.delta
    THEN Compare(Obj(b.allocations[b.curIndex + 1]).value,
                 Obj(a.allocations[a.curIndex + 1]).value)
    ELSE Compare(b.delta, a.delta)

\* orderFunc: straight priorities, then delta values, then current values
orderFunc(a, b) ==
    IF a.priority = b.priority
    THEN IF a.delta = b.delta
         THEN Compare(Obj(b.allocations[b.curIndex + 1]).value,
                      Obj(a.allocations[a.curIndex + 1]).value)
         ELSE Compare(b.delta, a.delta)
    ELSE Compare(a.priority, b.priority)

\* faulty variant of SortedAllocations: every entry is filled from the candidates of one and the same server
SortedAllocationsShared(s) ==
    LET first == CHOOSE x \in DOMAIN allAllocs : DOMAIN allAllocs[x] # {}
    IN  {q \in Perms({Ref(first, g) : g \in DOMAIN allAllocs[first]}) :
            \A i \in 1..(Len(q) - 1) : Obj(q[i]).value <= Obj(q[i + 1]).value}

\* faulty variant of SortedAllocations: the candidates are left in the order
\* in which the map gives them
SortedAllocationsAsRanged(s) == Perms({Ref(s, g) : g \in DOMAIN allAllocs[s]})

\* the results slices.SortFunc can give for the candidates of server s: every
\* order of them that ascends in value (the sort is not stable and its input is
\* in map-iteration order)
SortedAllocations(s) ==
    {q \in Perms({Ref(s, g) : g \in DOMAIN allAllocs[s]}) :
        \A i \in 1..(Len(q) - 1) : Obj(q[i]).value <= Obj(q[i + 1]).value}

\* the serverEntry SolveGreedy creates for server s with sorted candidates q
NewEntry(s, q) ==
    [serverName |-> s, priority |-> Priority(s), curIndex |-> 0, allocations |-> q,
     delta |-> IF Len(q) > 1 THEN Obj(q[2]).value - Obj(q[1]).value ELSE MaxFloat32]

\* the results slices.SortFunc(entries, orderFunc) can give for the set E
SortedEntries(E) ==
    {q \in Perms(E) : \A i \in 1..(Len(q) - 1) : orderFunc(q[i], q[i + 1]) <= 0}

\* slices.BinarySearchFunc(x, target, orderFunc): the loop on the 0-based range i..j
RECURSIVE BinarySearchFrom(_, _, _, _)
BinarySearchFrom(x, target, i, j) ==
    IF i < j
    THEN LET h == (i + j) \div 2
         IN  IF orderFunc(x[h + 1], target) < 0
             THEN BinarySearchFrom(x, target, h + 1, j)
             ELSE BinarySearchFrom(x, target, i, h)
    ELSE i

BinarySearchFunc(x, target) == BinarySearchFrom(x, target, 0, Len(x))

\* faulty variant of Reorder: top is put back twice
ReorderTwice(rest, top) == Append(<<top>> \o rest, top)

\* faulty variant of Reorder: top is put back at the end of the residual list
ReorderAtEnd(rest, top) == Append(rest, top)

\* "reorder server entries": the residual list with top put back
Reorder(rest, top) == SliceInsert(rest, BinarySearchFunc(rest, top), top)

\* unitsPerReplica of a candidate on accelerator gName for server s
UnitsPerReplica(s, gName) ==
    NumInstances(servers[s].model, gName) * accelerators[gName].multiplicity

\* faulty variant of IsAvailable: twice the count is asked for
IsAvailableTwice(avail, tName, count) == MapGet(avail, tName) >= 2 * count

\* faulty variant of IsAvailable: a count that takes all that is left is refused
IsAvailableMore(avail, tName, count) == MapGet(avail, tName) > count

\* faulty variant of IsAvailable: any unit left of the type is taken for enough
IsAvailableAny(avail, tName, count) == MapGet(avail, tName) > 0

\* "check if accelerator type of current allocation is available"
IsAvailable(avail, tName, count) == MapGet(avail, tName) >= count

\* faulty variant of NextCandidate: delta is left as it was
NextCandidateSameDelta(top) == [top EXCEPT !.curIndex = top.curIndex + 1]

\* top after "move to next candidate allocation": curIndex and delta
NextCandidate(top) ==
    LET cur == top.curIndex + 1
    IN  IF cur + 1 < Len(top.allocations)
        THEN [top EXCEPT !.curIndex = cur,
                         !.delta = Obj(top.allocations[cur + 2]).value
                                   - Obj(top.allocations[cur + 1]).value]
        ELSE IF cur = Len(top.allocations)
        THEN [top EXCEPT !.curIndex = cur]
        ELSE [top EXCEPT !.curIndex = cur, !.delta = MaxFloat32]

\* no call of the evaluator made
NoCall == [op |-> "", server |-> "", acc |-> "", arg |-> <<>>, result |-> {}, prev |-> <<>>]

\* a Go map with no keys
EmptyMap == [x \in {} |-> 0]

\* the saturation procedures not running
EmptySat ==
    [list |-> <<>>, i |-> 0, group |-> <<>>, pos |-> 0, tk |-> EmptyMap,
     tickets |-> {}, allocated |-> {}]

\* the candidates System.Calculate() leaves on every server: the feasible
\* allocations over the whole catalog
AllAllocations ==
    [s \in DOMAIN servers |->
        [g \in {x \in DOMAIN accelerators : CreateAllocation(s, x) # {}} |->
            CHOOSE a \in CreateAllocation(s, g) : TRUE]]

\* System.Calculate()
Calculate ==
    /\ pc = "calculate"
    /\ allAllocs' = AllAllocations
    /\ pc' = "solve"
    /\ UNCHANGED <<dataVars, out, allocation, policy, available, entries, unallocated, sat>>

\* faulty variant of ClearedAllocations: the allocations of an earlier solve are
\* left on the servers
NotCleared == allocation

\* server.RemoveAllocation() for every server of the registry
ClearedAllocations ==
    [s \in DOMAIN servers |-> RemoveAllocation(allocation, s)[s]]

\* faulty variant of CopiedCapacities: the map is made and nothing copied
NothingCopied == EmptyMap

\* available := make(map[string]int); maps.Copy(available, core.GetCapacities())
CopiedCapacities == capacity

\* SolveGreedy up to the main loop: the copy of the capacities, the servers'
\* allocations removed, the sorted entries
CreateEntries ==
    /\ pc = "solve"
    /\ available' = CopiedCapacities
    /\ allocation' = ClearedAllocations
    /\ LET W == {s \in DOMAIN servers : DOMAIN allAllocs[s] # {}}
           Q == UNION {SortedAllocations(s) : s \in W}
       IN  \E f \in [W -> Q] :
              /\ \A s \in W : f[s] \in SortedAllocations(s)
              /\ \E es \in SortedEntries({NewEntry(s, f[s]) : s \in W}) : entries' = es
    /\ unallocated' = <<>>
    /\ pc' = "main"
    /\ UNCHANGED <<dataVars, out, allAllocs, policy, sat>>

\* faulty variant of NoMoreAllocations: the last candidate is not tried
NoMoreAllocationsEarly(top) == top.curIndex + 1 >= Len(top.allocations)

\* "no more allocations, could not satisfy any"
NoMoreAllocations(top) == top.curIndex = Len(top.allocations)

\* one iteration of "start allocation greedily, in order"
MainStep ==
    /\ pc = "main"
    /\ Len(entries) > 0
    /\ LET top == entries[1]
           rest == Tail1(entries)
           serverName == top.serverName
           alloc == top.allocations[top.curIndex + 1]
           gName == Obj(alloc).accelerator
           tName == accelerators[gName].type
           count == Obj(alloc).numReplicas * UnitsPerReplica(serverName, gName)
           next == NextCandidate(top)
       IN  IF Len(top.allocations) = 0
           THEN /\ entries' = rest
                /\ UNCHANGED <<available, allocation, unallocated>>
           ELSE IF IsAvailable(available, tName, count)
           THEN /\ available' = MapPut(available, tName, MapGet(available, tName) - count)
                /\ allocation' = SetAllocation(allocation, serverName, alloc)
                /\ entries' = rest
                /\ UNCHANGED unallocated
           ELSE IF NoMoreAllocations(next)
           THEN /\ unallocated' = Append(unallocated, next)
                /\ entries' = rest
                /\ UNCHANGED <<available, allocation>>
           ELSE /\ entries' = Reorder(rest, next)
                /\ UNCHANGED <<available, allocation, unallocated>>
    /\ UNCHANGED <<dataVars, out, allAllocs, policy, pc, sat>>

----------------------------------------------------------------------------
(* pkg/solver: the saturation policies *)

\* config.SaturatedAllocationPolicyEnum
Policies == {"None", "PriorityExhaustive", "PriorityRoundRobin", "RoundRobin"}

\* faulty variant of Rescale: the number of replicas is left as it was
RescaleCost(a, n) ==
    [a EXCEPT !.cost = (a.cost * n) \div a.numReplicas,
              !.value = (a.value * n) \div a.numReplicas]

\* faulty variant of Rescale: cost and value are left as they were
RescaleReplicas(a, n) == [a EXCEPT !.numReplicas = n]

\* "adjust cost and value" and SetNumReplicas(n): factor = n / curNumReplicas
Rescale(a, n) ==
    [a EXCEPT !.cost = (a.cost * n) \div a.numReplicas,
              !.value = (a.value * n) \div a.numReplicas,
              !.numReplicas = n]

\* the serverAllocationTicket created for a member of the group
NewTicket ==
    [active |-> FALSE, accType |-> "", unitsPerReplica |-> 0, numReplicas |-> 0,
     finalAlloc |-> NilRef]

\* processUnallocatedServerGroup(group, available) up to the round-robin loop
StartGroup(s, group) ==
    LET names == {group[k].serverName : k \in 1..Len(group)}
    IN  [s EXCEPT !.group = group, !.pos = 1, !.tk = [n \in names |-> NewTicket],
                  !.tickets = names, !.allocated = {}]

\* "process unallocated servers based on saturation policy".  The policy is a
\* field of the optimizer spec that nothing reads before this switch: the model
\* draws it here.
SwitchPolicy ==
    /\ pc = "main"
    /\ Len(entries) = 0
    /\ \E p \in Policies :
          /\ policy' = p
          /\ CASE p = "PriorityExhaustive" ->
                      /\ pc' = "exhaustive"
                      /\ sat' = [EmptySat EXCEPT !.list = unallocated, !.i = 1]
               [] p = "PriorityRoundRobin" ->
                      /\ pc' = "groups"
                      /\ sat' = [EmptySat EXCEPT !.list = unallocated, !.i = 1]
               [] p = "RoundRobin" ->
                      /\ pc' = "roundrobin"
                      /\ sat' = StartGroup([EmptySat EXCEPT !.list = unallocated],
                                           unallocated)
               [] OTHER ->
                      /\ pc' = "done"
                      /\ sat' = EmptySat
    /\ UNCHANGED <<dataVars, out, allAllocs, allocation, available, entries, unallocated>>

\* faulty variant of MaxReplicas: the candidate's own numReplicas does not cap it
MaxReplicasUncapped(avail, s, r) ==
    LET accName == Obj(r).accelerator
    IN  IF accName \in DOMAIN accelerators /\ UnitsPerReplica(s, accName) > 0
        THEN MapGet(avail, accelerators[accName].type) \div UnitsPerReplica(s, accName)
        ELSE 0

\* maxReplicas of processUnallocatedServers for candidate r of server s: 0 when
\* the candidate is passed over
MaxReplicas(avail, s, r) ==
    LET accName == Obj(r).accelerator
    IN  IF accName \in DOMAIN accelerators /\ UnitsPerReplica(s, accName) > 0
        THEN Min(MapGet(avail, accelerators[accName].type) \div UnitsPerReplica(s, accName),
                 Obj(r).numReplicas)
        ELSE 0

\* processUnallocatedServers: one iteration of the loop over the server entries
ExhaustiveStep ==
    /\ pc = "exhaustive"
    /\ sat.i <= Len(sat.list)
    /\ LET entry == sat.list[sat.i]
           s == entry.serverName
           fits == {k \in 1..Len(entry.allocations) :
                       MaxReplicas(available, s, entry.allocations[k]) > 0}
       IN  IF fits = {}
           THEN UNCHANGED <<allAllocs, allocation, available>>
           ELSE LET k == CHOOSE x \in fits : \A y \in fits : x <= y
                    r == entry.allocations[k]
                    maxReplicas == MaxReplicas(available, s, r)
                    tName == accelerators[Obj(r).accelerator].type
                    count == maxReplicas * UnitsPerReplica(s, Obj(r).accelerator)
                IN  /\ allAllocs' = [allAllocs EXCEPT ![r.owner][r.acc] =
                                                         Rescale(@, maxReplicas)]
                    /\ allocation' = SetAllocation(allocation, s, r)
                    /\ available' = MapPut(available, tName, MapGet(available, tName) - count)
    /\ sat' = [sat EXCEPT !.i = @ + 1]
    /\ UNCHANGED <<dataVars, out, policy, pc, entries, unallocated>>

\* processUnallocatedServers returns
ExhaustiveReturn ==
    /\ pc = "exhaustive"
    /\ sat.i > Len(sat.list)
    /\ pc' = "done"
    /\ UNCHANGED <<dataVars, out, allAllocs, allocation, policy, available, entries,
                   unallocated, sat>>

\* faulty variant of GroupEnd: the rest of the list is taken as one group
GroupEndOfList(list, i) == Len(list)

\* the end (1-based, inclusive) of the run of equal priorities that starts at i
RECURSIVE GroupEnd(_, _)
GroupEnd(list, i) ==
    IF i < Len(list) /\ list[i + 1].priority = list[i].priority
    THEN GroupEnd(list, i + 1)
    ELSE i

\* processGroupsOfUnallocatedServers: one iteration, up to the call's loop
GroupStep ==
    /\ pc = "groups"
    /\ sat.i <= Len(sat.list)
    /\ LET j == GroupEnd(sat.list, sat.i)
       IN  sat' = StartGroup([sat EXCEPT !.i = j + 1], SubSeq(sat.list, sat.i, j))
    /\ pc' = "roundrobin"
    /\ UNCHANGED <<dataVars, out, allAllocs, allocation, policy, available, entries,
                   unallocated>>

\* processGroupsOfUnallocatedServers returns
GroupsReturn ==
    /\ pc = "groups"
    /\ sat.i > Len(sat.list)
    /\ pc' = "done"
    /\ UNCHANGED <<dataVars, out, allAllocs, allocation, policy, available, entries,
                   unallocated, sat>>

\* "determine candidate allocation for not yet processed members": the ticket
\* after the scan of the entry's candidates
Activate(avail, entry, ticket) ==
    LET ok == {k \in 1..Len(entry.allocations) :
                  LET accName == Obj(entry.allocations[k]).accelerator
                  IN  /\ accName \in DOMAIN accelerators
                      /\ UnitsPerReplica(entry.serverName, accName) > 0
                      /\ MapGet(avail, accelerators[accName].type)
                            >= UnitsPerReplica(entry.serverName, accName)}
    IN  IF ticket.active \/ ok = {}
        THEN ticket
        ELSE LET k == CHOOSE x \in ok : \A y \in ok : x <= y
                 accName == Obj(entry.allocations[k]).accelerator
             IN  [ticket EXCEPT !.active = TRUE,
                                !.accType = accelerators[accName].type,
                                !.unitsPerReplica = UnitsPerReplica(entry.serverName, accName),
                                !.finalAlloc = entry.allocations[k]]

\* replicasAllocatable of "make one allocation (replica) to member"
ReplicasAllocatable(avail, ticket) ==
    Min(MapGet(avail, ticket.accType) \div ticket.unitsPerReplica,
        Obj(ticket.finalAlloc).numReplicas)

\* faulty variant of Granted: a member is given all it can take at its visit
GrantedAll(avail, ticket) ==
    Min(MapGet(avail, ticket.accType) \div ticket.unitsPerReplica,
        Obj(ticket.finalAlloc).numReplicas)

\* faulty variant of Granted: a visit gives nothing and keeps the ticket
GrantedNone(avail, ticket) == 0

\* the replicas a member is given at one visit: "ticket.numReplicas++"
Granted(avail, ticket) == 1

\* processUnallocatedServerGroup: one visit of "visit members in round-robin way"
VisitMember ==
    /\ pc = "roundrobin"
    /\ sat.pos <= Len(sat.group)
    /\ sat.pos > 1 \/ sat.tickets # {}
    /\ LET entry == sat.group[sat.pos]
           name == entry.serverName
           ticket == Activate(available, entry, sat.tk[name])
           nextPos == IF sat.pos < Len(sat.group) THEN sat.pos + 1 ELSE 1
       IN  IF name \notin sat.tickets
           THEN /\ sat' = [sat EXCEPT !.pos = nextPos]
                /\ UNCHANGED available
           ELSE IF ~ticket.active
           THEN /\ sat' = [sat EXCEPT !.pos = nextPos, !.tickets = @ \ {name}]
                /\ UNCHANGED available
           ELSE IF ReplicasAllocatable(available, ticket) > 0
           THEN /\ sat' = [sat EXCEPT !.pos = nextPos,
                                      !.tk[name] = [ticket EXCEPT !.numReplicas =
                                                       @ + Granted(available, ticket)],
                                      !.allocated = @ \cup {name}]
                /\ available' = MapPut(available, ticket.accType,
                                       MapGet(available, ticket.accType)
                                          - Granted(available, ticket)
                                               * ticket.unitsPerReplica)
           ELSE /\ sat' = [sat EXCEPT !.pos = nextPos, !.tk[name] = ticket,
                                      !.tickets = @ \ {name}]
                /\ UNCHANGED available
    /\ UNCHANGED <<dataVars, out, allAllocs, allocation, policy, pc, entries, unallocated>>

\* processUnallocatedServerGroup: "update allocated members", and the return
UpdateAllocated ==
    /\ pc = "roundrobin"
    /\ sat.pos = 1
    /\ sat.tickets = {}
    /\ allAllocs' =
          [s \in DOMAIN allAllocs |->
              [g \in DOMAIN allAllocs[s] |->
                  IF \E n \in sat.allocated : sat.tk[n].finalAlloc = Ref(s, g)
                  THEN LET n == CHOOSE x \in sat.allocated : sat.tk[x].finalAlloc = Ref(s, g)
                       IN  Rescale(allAllocs[s][g], sat.tk[n].numReplicas)
                  ELSE allAllocs[s][g]]]
    /\ allocation' =
          [s \in DOMAIN allocation |->
              IF s \in sat.allocated
              THEN SetAllocation(allocation, s, sat.tk[s].finalAlloc)[s]
              ELSE allocation[s]]
    /\ pc' = IF policy = "PriorityRoundRobin" THEN "groups" ELSE "done"
    /\ UNCHANGED <<dataVars, out, policy, available, entries, unallocated, sat>>

----------------------------------------------------------------------------
(* The data of the model: a catalog in the shape of the repository's sample *)
(* data, with small numbers                                                 *)

Catalog ==
    [x \in {"A100", "G2", "A100x2"} |->
        CASE x = "A100" -> [type |-> "A100", multiplicity |-> 1, cost |-> 4]
          [] x = "G2" -> [type |-> "G2", multiplicity |-> 1, cost |-> 3]
          [] OTHER -> [type |-> "A100", multiplicity |-> 2, cost |-> 4]]

Perf(accCount, alpha, beta) ==
    [accCount |-> accCount, maxBatchSize |-> 4, atTokens |-> 100,
     alpha |-> alpha, beta |-> beta]

ModelData ==
    [m \in {"m1", "m2"} |->
        [g \in {"A100", "G2", "A100x2"} |->
            CASE g = "A100" -> Perf(1, 19, 5)
              [] g = "G2" -> Perf(IF m = "m1" THEN 1 ELSE 2, 19, 5)
              [] OTHER -> Perf(1, 9, 2)]]

Target(itl, ttw, tps) == [ITL |-> itl, TTW |-> ttw, TPS |-> tps]

ClassData ==
    [c \in {"Premium", "Bronze"} |->
        IF c = "Premium"
        THEN [priority |-> 1, targets |-> [m \in {"m1", "m2"} |-> Target(40, 1000, 0)]]
        ELSE [priority |-> 2, targets |-> [m \in {"m1", "m2"} |-> Target(80, 2000, 0)]]]

Load(rate, len) == [present |-> TRUE, arrivalRate |-> rate, avgLength |-> len]

Server(class, model, minRep, rate) ==
    [class |-> class, model |-> model, minNumReplicas |-> minRep, maxBatchSize |-> 0,
     load |-> Load(rate, 100)]

ArrivalRates == {60 * k : k \in 0..MaxLoad}

\* the library finds every limit attainable at the upper bound of the rate
OracleData ==
    [g \in DOMAIN Catalog |->
        [serv |-> [kind |-> "ok", pos |-> OracleGrid],
         wait |-> [kind |-> "ok", pos |-> OracleGrid],
         rho |-> 50, avgServTime |-> 3000, avgWaitTime |-> 100]]

ServerNames == {"s1", "s2", "s3"}

ServerData ==
    {[s \in ServerNames |->
         CASE s = "s1" -> Server("Premium", "m1", m, r1)
           [] s = "s2" -> Server("Premium", "m1", 1, r2)
           [] OTHER -> Server("Bronze", "m2", 1, r3)] :
       m \in 1..MaxMinReplicas, r1 \in ArrivalRates, r2 \in {60, 60 * MaxLoad},
       r3 \in {0, 60 * MaxLoad}}

\* capacity maps: A100 always has an entry, G2 may have none
CapacityData ==
    {[t \in {"A100"} |-> c] : c \in 0..MaxCap}
        \cup {[t \in {"A100", "G2"} |-> IF t = "A100" THEN c ELSE MaxCapG2] :
                 c \in 0..MaxCap}

----------------------------------------------------------------------------
(* Spec: Calculate, then SolveGreedy with its saturation policy *)

Init ==
    /\ accelerators = Catalog
    /\ capacity \in CapacityData
    /\ models = ModelData
    /\ serviceClasses = ClassData
    /\ servers \in ServerData
    /\ oracle = OracleData
    /\ allAllocs = [s \in ServerNames |-> EmptyMap]
    /\ allocation \in {[s \in ServerNames |-> NilRef], [s \in ServerNames |-> StaleRef]}
    /\ policy = ""
    /\ pc = "calculate"
    /\ available = EmptyMap
    /\ entries = <<>>
    /\ unallocated = <<>>
    /\ sat = EmptySat
    /\ out = NoCall

Next ==
    \/ Calculate
    \/ CreateEntries
    \/ MainStep
    \/ SwitchPolicy
    \/ ExhaustiveStep
    \/ ExhaustiveReturn
    \/ GroupStep
    \/ GroupsReturn
    \/ VisitMember
    \/ UpdateAllocated

Spec == Init /\ [][Next]_vars

----------------------------------------------------------------------------
(* SpecProc: the saturation procedures called on arguments of any kind: a   *)
(* list of entries of distinct servers in any order, each with its sorted   *)
(* candidates, and any available map                                        *)

\* every server has the same positive load
ProcServerData ==
    {[s \in ServerNames |->
         CASE s = "s1" -> Server("Premium", "m1", 1, r)
           [] s = "s2" -> Server("Premium", "m1", 1, r)
           [] OTHER -> Server("Bronze", "m2", 1, r)] :
       r \in ArrivalRates \ {0}}

ProcAvailable == CapacityData

\* an entry as the main pass leaves it on the unallocated list
ExhaustedEntry(s, q) ==
    [serverName |-> s, priority |-> Priority(s), curIndex |-> Len(q),
     allocations |-> q, delta |-> MaxFloat32]

InitProc ==
    /\ accelerators = Catalog
    /\ capacity = EmptyMap
    /\ models = ModelData
    /\ serviceClasses = ClassData
    /\ servers \in ProcServerData
    /\ oracle = OracleData
    /\ allAllocs = AllAllocations
    /\ allocation = [s \in ServerNames |-> NilRef]
    /\ policy = ""
    /\ pc = "main"
    /\ available \in ProcAvailable
    /\ entries = <<>>
    /\ \E W \in SUBSET ServerNames : \E order \in Perms(W) :
          \E f \in [W -> UNION {SortedAllocations(s) : s \in W}] :
             /\ W # {}
             /\ \A s \in W : f[s] \in SortedAllocations(s)
             /\ unallocated = [k \in 1..Len(order) |-> ExhaustedEntry(order[k], f[order[k]])]
    /\ sat = EmptySat
    /\ out = NoCall

\* the procedure that is called, by name
CallProcedure ==
    /\ SwitchPolicy
    /\ policy' # "None"

NextProc ==
    \/ CallProcedure
    \/ ExhaustiveStep
    \/ ExhaustiveReturn
    \/ GroupStep
    \/ GroupsReturn
    \/ VisitMember
    \/ UpdateAllocated

SpecProc == InitProc /\ [][NextProc]_vars

----------------------------------------------------------------------------
(* Properties of SolveGreedy (Spec) *)

\* the accelerator types of the catalog
Types == {accelerators[g].type : g \in DOMAIN accelerators}

\* server s holds an allocation that this solve assigned
Assigned(s) == allocation[s] # NilRef /\ allocation[s] # StaleRef

\* the units of type t that the allocation of server s takes
UnitsHeld(s, t) ==
    IF Assigned(s) /\ accelerators[Obj(allocation[s]).accelerator].type = t
    THEN Obj(allocation[s]).numReplicas
            * UnitsPerReplica(s, Obj(allocation[s]).accelerator)
    ELSE 0

RECURSIVE SumUnitsHeld(_, _)
SumUnitsHeld(S, t) ==
    IF S = {} THEN 0
    ELSE LET s == CHOOSE x \in S : TRUE
         IN  UnitsHeld(s, t) + SumUnitsHeld(S \ {s}, t)

\* the solve has started: the entries exist
Solving == pc \notin {"calculate", "solve"}

\* the names of the servers on a list of entries
Names(list) == {list[k].serverName : k \in 1..Len(list)}

\* C1: through the main pass and under every saturation policy available[t] is
\* never negative and the units held by the assigned servers of a type never
\* exceed its capacity, a type without a capacity entry counting as capacity 0
C1_CapacityNeverExceeded ==
    Solving =>
        \A t \in Types \cup DOMAIN available :
            /\ MapGet(available, t) >= 0
            /\ SumUnitsHeld(ServerNames, t) <= MapGet(capacity, t)

\* a solve that ends with a type used up by the main pass and the round robin
\* together, and with a type that has no capacity entry
C1_Witness ==
    /\ pc = "done"
    /\ policy = "RoundRobin"
    /\ sat.allocated # {}
    /\ \E s \in ServerNames \ sat.allocated : Assigned(s)
    /\ "G2" \notin DOMAIN capacity
    /\ capacity["A100"] > 0
    /\ available["A100"] = 0

\* C2: every allocation SolveGreedy assigns to a server is one of that server's
\* own candidates, on an accelerator of the catalog for which the server's model
\* has perf data
C2_AssignedFromOwnList ==
    Solving =>
        \A s \in ServerNames :
            allocation[s] # NilRef =>
                /\ allocation[s].owner = s
                /\ allocation[s].acc \in DOMAIN allAllocs[s]
                /\ Obj(allocation[s]).accelerator \in DOMAIN accelerators
                /\ Obj(allocation[s]).accelerator \in DOMAIN models[servers[s].model]

\* a solve that assigned one server in the main pass and another in a
\* saturation policy
C2_Witness ==
    /\ pc = "done"
    /\ \E s \in ServerNames \ Names(unallocated) : Assigned(s)
    /\ \E s \in Names(unallocated) : Assigned(s)

\* C3: after any solve every server that holds an allocation has at least its
\* minNumReplicas replicas (the saturation policies do not keep this)
C3_AtLeastMinReplicas ==
    pc = "done" =>
        \A s \in ServerNames :
            Assigned(s) => Obj(allocation[s]).numReplicas >= servers[s].minNumReplicas

\* entry a is not after entry b: lower priority number first, then larger delta,
\* then larger value of the current candidate
NotAfter(a, b) ==
    \/ a.priority < b.priority
    \/ a.priority = b.priority /\ a.delta > b.delta
    \/ /\ a.priority = b.priority
       /\ a.delta = b.delta
       /\ Obj(a.allocations[a.curIndex + 1]).value
             >= Obj(b.allocations[b.curIndex + 1]).value

\* C4: the residual list is sorted by the comparator at every iteration of the
\* main loop, so the entry popped is minimal among the entries still listed, and
\* putting an entry back after its curIndex and delta changed keeps it sorted
C4_ResidualSorted ==
    pc = "main" =>
        \A i, j \in 1..Len(entries) : i < j => NotAfter(entries[i], entries[j])

\* an entry that was put back behind another entry and ahead of a third
C4_Witness ==
    /\ pc = "main"
    /\ Len(entries) = 3
    /\ entries[2].curIndex > 0

\* the servers on the unallocated list hold nothing while the main pass runs and
\* after a solve under policy None, and carry all their candidates
C5_UnallocatedHoldNothing ==
    Solving =>
        /\ \A k \in 1..Len(unallocated) :
              LET e == unallocated[k]
                  s == e.serverName
              IN  /\ e.curIndex = Len(e.allocations)
                  /\ Len(e.allocations) = Cardinality(DOMAIN allAllocs[s])
                  /\ {e.allocations[i] : i \in 1..Len(e.allocations)}
                        = {Ref(s, g) : g \in DOMAIN allAllocs[s]}
                  /\ (pc = "main" \/ (pc = "done" /\ policy = "None"))
                        => allocation[s] = NilRef
        /\ \A s \in ServerNames :
              (pc = "main" /\ DOMAIN allAllocs[s] # {})
                 => \/ s \in Names(entries)
                    \/ s \in Names(unallocated)
                    \/ Assigned(s)

\* under policy None nothing changes after the main pass
C5_NoneChangesNothing ==
    (pc = "main" /\ Len(entries) = 0 /\ policy' = "None")
        => /\ pc' = "done"
           /\ available' = available
           /\ allocation' = allocation
           /\ allAllocs' = allAllocs

\* C5: a server whose every candidate was refused is on the unallocated list,
\* holds no allocation at the end of the main pass and still carries its full
\* candidate list; under policy None it holds none when SolveGreedy returns and
\* available is as the main pass left it
C5_UnallocatedAfterMainPass ==
    [](C5_UnallocatedHoldNothing) /\ [][C5_NoneChangesNothing]_vars

\* a solve under policy None that left one server unallocated and assigned another
C5_Witness ==
    /\ pc = "done"
    /\ policy = "None"
    /\ Len(unallocated) > 0
    /\ \E s \in ServerNames : Assigned(s)

----------------------------------------------------------------------------
(* Properties of the saturation procedures (SpecProc) *)

\* the replicas candidate r of server s can be given out of avail:
\* min(floor(avail[t] / u), candidate.numReplicas), from the registries
Replicas(avail, s, r) ==
    LET g == allAllocs[r.owner][r.acc].accelerator
        u == UnitsPerReplica(s, g)
        n == allAllocs[r.owner][r.acc].numReplicas
        room == MapGet(avail, accelerators[g].type) \div u
    IN  IF room < n THEN room ELSE n

\* what one iteration of PriorityExhaustive does for the server at sat.i
C6_ExhaustiveIteration ==
    (pc = "exhaustive" /\ sat.i <= Len(sat.list)) =>
        LET entry == sat.list[sat.i]
            s == entry.serverName
            fits == {k \in 1..Len(entry.allocations) :
                        Replicas(available, s, entry.allocations[k]) >= 1}
        IN  /\ pc' = "exhaustive"
            /\ sat'.list = sat.list
            /\ sat'.i = sat.i + 1
            /\ IF fits = {}
               THEN /\ allocation' = allocation
                    /\ available' = available
                    /\ allAllocs' = allAllocs
               ELSE LET k == CHOOSE x \in fits : \A y \in fits : x <= y
                        c == entry.allocations[k]
                        old == allAllocs[c.owner][c.acc]
                        new == allAllocs'[c.owner][c.acc]
                        t == accelerators[old.accelerator].type
                        r == Replicas(available, s, c)
                    IN  /\ allocation' = [allocation EXCEPT ![s] = c]
                        /\ new.numReplicas = r
                        /\ new.cost * old.numReplicas = old.cost * r
                        /\ new.value * old.numReplicas = old.value * r
                        /\ new.accelerator = old.accelerator
                        /\ \A x \in DOMAIN allAllocs : \A g \in DOMAIN allAllocs[x] :
                              Ref(x, g) # c => allAllocs'[x][g] = allAllocs[x][g]
                        /\ MapGet(available', t)
                              = MapGet(available, t) - r * UnitsPerReplica(s, old.accelerator)
                        /\ \A y \in (DOMAIN available \cup DOMAIN available') \ {t} :
                              MapGet(available', y) = MapGet(available, y)

\* C6: under PriorityExhaustive, for any unallocated list and available map, the
\* servers are served one at a time in list order: each takes the first candidate
\* of its list with r = min(floor(available[t]/u), numReplicas) >= 1, is assigned
\* it with numReplicas = r and cost and value multiplied by r/(original
\* numReplicas), available[t] drops by r*u, and then the next server is served; a
\* server with no such candidate receives nothing
C6_PriorityExhaustive == [][C6_ExhaustiveIteration]_vars

\* three servers that each want 4 replicas of one unit, with 6 units: 4, 2 and 0
C6_Witness ==
    /\ pc = "done"
    /\ policy = "PriorityExhaustive"
    /\ Len(sat.list) = 3
    /\ \A k \in 1..2 :
          /\ allocation[sat.list[k].serverName] # NilRef
          /\ Obj(allocation[sat.list[k].serverName]).accelerator = "A100"
          /\ Obj(allocation[sat.list[k].serverName]).numReplicas = 6 - 2 * k
          /\ Obj(allocation[sat.list[k].serverName]).cost = 4 * (6 - 2 * k)
    /\ allocation[sat.list[3].serverName] = NilRef
    /\ \A s \in ServerNames : servers[s].load.arrivalRate = 240
    /\ DOMAIN available = {"A100"}
    /\ available["A100"] = 0

\* C7: in the round-robin procedure no ticket holds more replicas than its
\* chosen candidate's numReplicas (the procedure does not keep this on every
\* list and available map)
C7_TicketWithinCandidate ==
    pc = "roundrobin" =>
        \A n \in DOMAIN sat.tk :
            sat.tk[n].active
               => sat.tk[n].numReplicas <= Obj(sat.tk[n].finalAlloc).numReplicas

\* the members of the group at positions i < j chose candidates of the same type,
\* units per replica and numReplicas
SameChoice(i, j) ==
    LET a == sat.tk[sat.group[i].serverName]
        b == sat.tk[sat.group[j].serverName]
    IN  /\ a.active
        /\ b.active
        /\ a.accType = b.accType
        /\ a.unitsPerReplica = b.unitsPerReplica
        /\ Obj(a.finalAlloc).numReplicas = Obj(b.finalAlloc).numReplicas

\* C8: in one run of the round-robin procedure, servers whose chosen candidates
\* have the same type, units per replica and numReplicas receive replica counts
\* that differ by at most one, and an earlier server never fewer than a later one
C8_RoundRobinFair ==
    pc = "roundrobin" =>
        \A i, j \in 1..Len(sat.group) :
            (i < j /\ SameChoice(i, j)) =>
                LET a == sat.tk[sat.group[i].serverName].numReplicas
                    b == sat.tk[sat.group[j].serverName].numReplicas
                IN  a >= b /\ a - b <= 1

\* three servers that each want 4 replicas of one unit, with 6 units: 2 each
C8_Witness ==
    /\ pc = "roundrobin"
    /\ sat.tickets = {}
    /\ sat.pos = 1
    /\ Len(sat.group) = 3
    /\ SameChoice(1, 2)
    /\ SameChoice(2, 3)
    /\ \A k \in 1..3 :
          LET ticket == sat.tk[sat.group[k].serverName]
          IN  /\ ticket.numReplicas = 2
              /\ ticket.unitsPerReplica = 1
              /\ Obj(ticket.finalAlloc).numReplicas = 4
    /\ available["A100"] = 0

\* positions j <= k of the list are in one run of equal priority
SameRun(list, j, k) == \A x \in j..k : list[x].priority = list[j].priority

\* the server at position k of the list has received a replica
Received(k) ==
    LET n == sat.list[k].serverName
    IN  \/ allocation[n] # NilRef
        \/ n \in Names(sat.group) /\ sat.tk[n].numReplicas > 0

\* the round-robin procedure of the run of position j has finished: the run was
\* started and none of its tickets is live
RunFinished(j) ==
    /\ j < sat.i
    /\ \A x \in 1..Len(sat.list) :
          (SameRun(sat.list, Min(x, j), Max(x, j)) /\ sat.list[x].serverName \in Names(sat.group))
             => sat.list[x].serverName \notin sat.tickets

C9_OneRunAtATime ==
    (policy = "PriorityRoundRobin" /\ pc \in {"groups", "roundrobin", "done"}) =>
        /\ pc # "roundrobin" => sat.tickets = {}
        /\ pc = "roundrobin" =>
              LET b == sat.i - 1
                  a == sat.i - Len(sat.group)
              IN  /\ 1 <= a /\ a <= b /\ b <= Len(sat.list)
                  /\ sat.group = SubSeq(sat.list, a, b)
                  /\ SameRun(sat.list, a, b)
                  /\ a > 1 => sat.list[a - 1].priority # sat.list[a].priority
                  /\ b < Len(sat.list) => sat.list[b + 1].priority # sat.list[b].priority
        /\ \A j, k \in 1..Len(sat.list) :
              (j < k /\ ~SameRun(sat.list, j, k) /\ Received(k)) => RunFinished(j)

\* the procedure is called on each run with the available map as it is
C9_SameAvailable ==
    pc = "groups" => available' = available

\* C9: under PriorityRoundRobin the list is split into consecutive runs of equal
\* priority and the round-robin procedure is run on one run at a time against the
\* same available map: no server of a later run receives a replica until the
\* procedure of every earlier run has finished, no ticket of it being left
C9_PriorityRoundRobin == [](C9_OneRunAtATime) /\ [][C9_SameAvailable]_vars

\* a server of the second run receives a replica after a server of the first
\* run was assigned its allocation
C9_Witness ==
    /\ policy = "PriorityRoundRobin"
    /\ pc = "roundrobin"
    /\ sat.i - Len(sat.group) > 1
    /\ allocation[sat.list[1].serverName] # NilRef
    /\ \E k \in 1..Len(sat.group) : sat.tk[sat.group[k].serverName].numReplicas > 0

----------------------------------------------------------------------------
(* SpecAlloc: one call of the evaluator on a registry of any kind *)

\* the loads of the server: none, out of range, zero in either field, positive
AllocLoads ==
    {[present |-> FALSE, arrivalRate |-> 0, avgLength |-> 0], Load(-60, 100), Load(60, -100)}
        \cup {Load(r, l) : r \in {0, 60, 60 * MaxLoad}, l \in {0, 100}}

AllocTargets == {Target(itl, ttw, tps) : itl \in {0, 40}, ttw \in {0, 1000}, tps \in {0, 1000}}

\* the answers of the root finder: any for the service time, two for the wait
AllocOracles ==
    {[g \in DOMAIN Catalog |->
         [serv |-> a, wait |-> b, rho |-> 50, avgServTime |-> 3000, avgWaitTime |-> 100]] :
       a \in {[kind |-> "ok", pos |-> p] : p \in 1..OracleGrid}
                \cup {[kind |-> "below", pos |-> 0], [kind |-> "err", pos |-> 0]},
       b \in {[kind |-> "ok", pos |-> OracleGrid], [kind |-> "below", pos |-> 0]}}

\* the registries: complete, or with the model, the perf data of A100, the
\* service class or the target of the model missing
AllocRegistries ==
    {[m |-> ModelData, c |-> [x \in {"Premium"} |-> [priority |-> 1, targets |-> tg]]] :
        tg \in [{"m1"} -> AllocTargets]}
      \cup {[m |-> [x \in {"m2"} |-> ModelData[x]], c |-> ClassData],
            [m |-> [x \in {"m1"} |-> [g \in {"G2"} |-> ModelData[x][g]]], c |-> ClassData],
            [m |-> ModelData, c |-> [x \in {"Bronze"} |-> ClassData[x]]],
            [m |-> ModelData,
             c |-> [x \in {"Premium"} |-> [priority |-> 1,
                                           targets |-> [y \in {"m2"} |-> Target(40, 1000, 0)]]]]}

InitAlloc ==
    /\ accelerators = Catalog
    /\ capacity = EmptyMap
    /\ \E reg \in AllocRegistries : models = reg.m /\ serviceClasses = reg.c
    /\ \E m \in 0..MaxMinReplicas, b \in {0, 2}, load \in AllocLoads :
          servers = [s \in {"s1"} |->
                        [class |-> "Premium", model |-> "m1", minNumReplicas |-> m,
                         maxBatchSize |-> b, load |-> load]]
    /\ oracle \in AllocOracles
    /\ allAllocs = [s \in {"s1"} |-> EmptyMap]
    /\ allocation = [s \in {"s1"} |-> NilRef]
    /\ policy = ""
    /\ pc = "call"
    /\ available = EmptyMap
    /\ entries = <<>>
    /\ unallocated = <<>>
    /\ sat = EmptySat
    /\ out = NoCall

\* the calls made: of a server and an accelerator that are registered or not
EvaluateCalls == {<<"s1", "A100">>, <<"s1", "A100x2">>, <<"s1", "H100">>, <<"s0", "A100">>}

\* a call CreateAllocation(serverName, gName); out.arg keeps the load the server
\* had at the call, out.prev the call before it
Evaluate ==
    /\ pc = "call"
    /\ \E c \in EvaluateCalls :
          out' = [op |-> "CreateAllocation", server |-> c[1], acc |-> c[2],
                  arg |-> IF c[1] \in DOMAIN servers THEN servers[c[1]].load ELSE <<>>,
                  result |-> CreateAllocation(c[1], c[2]),
                  prev |-> [out EXCEPT !.prev = <<>>]]
    /\ pc' = "returned"
    /\ UNCHANGED <<dataVars, allAllocs, allocation, policy, available, entries,
                   unallocated, sat>>

\* server.SetLoad(&newLoad) with a larger arrival rate, between a first call
\* and a second one
SetLoad ==
    /\ pc = "returned"
    /\ out.prev.op = ""
    /\ \E r \in ArrivalRates :
          /\ servers["s1"].load.present
          /\ r > servers["s1"].load.arrivalRate
          /\ servers' = [servers EXCEPT !["s1"].load.arrivalRate = r]
    /\ pc' = "call"
    /\ UNCHANGED <<accelerators, capacity, models, serviceClasses, oracle, out, allAllocs,
                   allocation, policy, available, entries, unallocated, sat>>

NextAlloc ==
    \/ Evaluate
    \/ SetLoad

SpecAlloc == InitAlloc /\ [][NextAlloc]_vars

----------------------------------------------------------------------------
(* Properties of the evaluator (SpecAlloc) *)

\* the call that returned found the server, a valid load (out.arg, the load at
\* the time of the call), the accelerator, the
\* model, its perf data, the service class and the target
AllPresent ==
    /\ out.op = "CreateAllocation"
    /\ out.acc \in DOMAIN accelerators
    /\ out.server \in DOMAIN servers
    /\ out.arg.present
    /\ out.arg.arrivalRate >= 0
    /\ out.arg.avgLength >= 0
    /\ servers[out.server].model \in DOMAIN models
    /\ out.acc \in DOMAIN models[servers[out.server].model]
    /\ servers[out.server].class \in DOMAIN serviceClasses
    /\ servers[out.server].model \in DOMAIN serviceClasses[servers[out.server].class].targets

\* C10: with arrivalRate = 0 or avgLength = 0, everything being present,
\* CreateAllocation returns an allocation with numReplicas = minNumReplicas, the
\* server's maxBatchSize if > 0 else perf.maxBatchSize as batch, waitTime = 0,
\* rho = 0 and cost = acc.cost * NumInstances * minNumReplicas: a result in which
\* no target appears, the same whatever the ITL, TTFT and TPS targets are
C10_ZeroLoadAllocation ==
    (/\ AllPresent
     /\ out.arg.arrivalRate = 0 \/ out.arg.avgLength = 0)
       => LET server == servers[out.server]
              perf == models[server.model][out.acc]
              batch == IF server.maxBatchSize > 0 THEN server.maxBatchSize
                       ELSE perf.maxBatchSize
              cost == accelerators[out.acc].cost * NumInstances(server.model, out.acc)
                         * server.minNumReplicas
          IN  out.result =
                 {[accelerator |-> out.acc, numReplicas |-> server.minNumReplicas,
                   batchSize |-> batch, cost |-> cost, value |-> cost,
                   servTime |-> perf.alpha + perf.beta, waitTime |-> 0, rho |-> 0,
                   maxArrvRatePerReplica |->
                      (batch * 60 * 1000) \div (perf.alpha + perf.beta * batch)]}

\* a zero-load call under targets that the root finder fails on, on a server with
\* a batch size of its own
C10_Witness ==
    /\ AllPresent
    /\ out.arg.arrivalRate = 0
    /\ out.arg.avgLength > 0
    /\ servers[out.server].maxBatchSize > 0
    /\ servers[out.server].minNumReplicas > 0
    /\ serviceClasses["Premium"].targets["m1"].ITL > 0
    /\ serviceClasses["Premium"].targets["m1"].TPS > 0
    /\ oracle[out.acc].serv.kind = "err"
    /\ \E a \in out.result : a.batchSize = servers[out.server].maxBatchSize

\* C11: for a fixed server, accelerator and targets, if CreateAllocation succeeds
\* at arrival rates r1 <= r2 (r1 may be 0), numReplicas(r1) <= numReplicas(r2)
C11_ReplicasMonotone ==
    (/\ out.op = "CreateAllocation"
     /\ out.prev.op = "CreateAllocation"
     /\ out.prev.server = out.server
     /\ out.prev.acc = out.acc
     /\ out.prev.result # {}
     /\ out.result # {}
     /\ out.prev.arg.arrivalRate <= out.arg.arrivalRate)
       => \A a \in out.prev.result, b \in out.result : a.numReplicas <= b.numReplicas

\* a call at zero load that gave minNumReplicas, then one at a positive load
\* that gave more
C11_Witness ==
    /\ out.op = "CreateAllocation"
    /\ out.prev.op = "CreateAllocation"
    /\ out.prev.server = out.server
    /\ out.prev.acc = out.acc
    /\ out.server \in DOMAIN servers
    /\ out.prev.arg.arrivalRate = 0
    /\ out.arg.arrivalRate > 0
    /\ out.arg.avgLength > 0
    /\ \E a \in out.prev.result, b \in out.result :
          /\ a.numReplicas = servers[out.server].minNumReplicas
          /\ a.numReplicas < b.numReplicas

\* the call was of the positive-load branch and returned an allocation
PositiveLoadResult ==
    /\ AllPresent
    /\ out.arg.arrivalRate > 0
    /\ out.arg.avgLength > 0
    /\ out.result # {}

\* C12: in the positive-load branch numReplicas = max(ceil(L / lambdaStar),
\* minNumReplicas), where L = TPS / (1000 K) under a throughput target and the
\* arrival rate otherwise, lambdaStar being the least of the service-time, wait
\* and throughput ceilings; so the rate per replica L / numReplicas is at most
\* lambdaStar
C12_NumReplicasFormula ==
    PositiveLoadResult =>
        \A a \in out.result :
            LET server == servers[out.server]
                perf == models[server.model][out.acc]
                target == serviceClasses[server.class].targets[server.model]
                K == out.arg.avgLength
                N == IF server.maxBatchSize > 0 THEN server.maxBatchSize
                     ELSE Max((perf.maxBatchSize * perf.atTokens) \div K, 1)
                lambdaMin == (ServRate(perf, 1, K) * DeltaPerMille) \div 1000
                lambdaMax == (ServRate(perf, N, K) * (1000 - DeltaPerMille)) \div 1000
                ceilings ==
                    {IF target.ITL > 0
                     THEN BinarySearch(lambdaMin, lambdaMax, oracle[out.acc].serv).lambda
                     ELSE lambdaMax,
                     IF target.TTW > 0
                     THEN BinarySearch(lambdaMin, lambdaMax, oracle[out.acc].wait).lambda
                     ELSE lambdaMax,
                     IF target.TPS > 0
                     THEN (lambdaMax * (1000 - StabilitySafetyPerMille)) \div 1000
                     ELSE lambdaMax}
                lambdaStar == a.maxArrvRatePerReplica
                \* L = num / den requests per minute
                num == IF target.TPS > 0 THEN target.TPS * 60 ELSE out.arg.arrivalRate
                den == IF target.TPS > 0 THEN K ELSE 1
                n == a.numReplicas
            IN  /\ lambdaStar \in ceilings
                /\ \A c \in ceilings : lambdaStar <= c
                /\ n >= server.minNumReplicas
                /\ n * den * lambdaStar >= num
                /\ n = server.minNumReplicas \/ (n - 1) * den * lambdaStar < num
                /\ num <= n * den * lambdaStar

\* a call under a throughput target that needs more replicas than minNumReplicas
\* and than the arrival rate alone would need
C12_Witness ==
    /\ PositiveLoadResult
    /\ serviceClasses["Premium"].targets["m1"].TPS > 0
    /\ serviceClasses["Premium"].targets["m1"].ITL > 0
    /\ \E a \in out.result :
          /\ a.numReplicas > servers[out.server].minNumReplicas
          /\ (a.numReplicas - 1) * a.maxArrvRatePerReplica >= out.arg.arrivalRate

\* the root finder reports the ITL or the TTFT ceiling of the call unattainable
Unattainable ==
    /\ AllPresent
    /\ out.arg.arrivalRate > 0
    /\ out.arg.avgLength > 0
    /\ LET target == serviceClasses[servers[out.server].class].targets[servers[out.server].model]
       IN  \/ target.ITL > 0 /\ oracle[out.acc].serv.kind = "below"
           \/ target.TTW > 0 /\ oracle[out.acc].wait.kind = "below"

\* a call with anything missing or invalid, or with an unattainable ceiling,
\* returned nil
C18_NilReturned ==
    (out.op = "CreateAllocation" /\ (~AllPresent \/ Unattainable)) => out.result = {}

\* a call assigns nothing to a server and changes no capacity
C18_NothingChanged ==
    out'.op = "CreateAllocation" =>
        /\ allocation' = allocation
        /\ allAllocs' = allAllocs
        /\ capacity' = capacity
        /\ available' = available

\* C18: CreateAllocation returns nil, assigning nothing to the server and
\* changing no capacity, whenever the accelerator, server, load, model, perf
\* data, service class or target is missing, the load has a negative field, or
\* the ITL or TTFT ceiling is unattainable; a missing entity gives nil at zero
\* load too
C18_InfeasibleIsNil == [](C18_NilReturned) /\ [][C18_NothingChanged]_vars

\* a call at zero load for a model without perf data on the accelerator
C18_Witness ==
    /\ out.op = "CreateAllocation"
    /\ out.server \in DOMAIN servers
    /\ out.acc \in DOMAIN accelerators
    /\ servers[out.server].model \in DOMAIN models
    /\ out.acc \notin DOMAIN models[servers[out.server].model]
    /\ out.arg.present
    /\ out.arg.arrivalRate = 0
    /\ out.result = {}

\* the root finder returned an error to the call: the queue model was not valid
\* at a rate it tried
NumericFailure ==
    /\ AllPresent
    /\ out.arg.arrivalRate > 0
    /\ out.arg.avgLength > 0
    /\ serviceClasses[servers[out.server].class].targets[servers[out.server].model].ITL > 0
    /\ oracle[out.acc].serv.kind = "err"

\* C19: a numeric failure of the queue model during CreateAllocation reaches the
\* caller as an outcome other than the nil of an infeasible allocation (the
\* function returns nil for both)
C19_NumericFailureSurfaced ==
    NumericFailure => out.result # {}

----------------------------------------------------------------------------
(* pkg/core/allocation.go: the operations on an allocation a *)

\* config.AccelPenaltyFactor, in thousandths
AccelPenaltyPerMille == 100

\* faulty variant of Inc: the difference is taken the other way round
IncReversed(alloc, a) == a.numReplicas - alloc.numReplicas

\* inc = alloc.numReplicas - a.numReplicas
Inc(alloc, a) == alloc.numReplicas - a.numReplicas

\* a.Scale(serverName): kind "nil" for (nil, 0), "ok" for (alloc, inc), and
\* "fault" for the nil pointer dereference of alloc.numReplicas
Scale(a, serverName) ==
    IF serverName \notin DOMAIN servers
    THEN [kind |-> "nil", alloc |-> {}, inc |-> 0]
    ELSE IF ~servers[serverName].load.present
    THEN [kind |-> "nil", alloc |-> {}, inc |-> 0]
    ELSE IF a.accelerator \notin DOMAIN accelerators
    THEN [kind |-> "nil", alloc |-> {}, inc |-> 0]
    ELSE LET alloc == CreateAllocation(serverName, a.accelerator)
         IN  IF alloc = {}
             THEN [kind |-> "fault", alloc |-> {}, inc |-> 0]
             ELSE [kind |-> "ok", alloc |-> alloc,
                   inc |-> Inc(CHOOSE x \in alloc : TRUE, a)]

\* the loop of ReAllocate over the accelerators in the order the map gives them
RECURSIVE ReAllocateFrom(_, _, _, _)
ReAllocateFrom(order, serverName, minVal, minAlloc) ==
    IF order = <<>> THEN minAlloc
    ELSE LET alloc == CreateAllocation(serverName, Head(order))
         IN  IF alloc # {} /\ (minVal = 0 \/ (CHOOSE x \in alloc : TRUE).value < minVal)
             THEN ReAllocateFrom(Tail(order), serverName,
                                 (CHOOSE x \in alloc : TRUE).value, alloc)
             ELSE ReAllocateFrom(Tail(order), serverName, minVal, minAlloc)

\* a.ReAllocate(serverName) when range GetAccelerators() goes in this order:
\* the set holding minAlloc, {} for (nil, "")
ReAllocate(serverName, order) == ReAllocateFrom(order, serverName, 0, {})

\* faulty variant of CrossPenalty: the cost difference is taken absolute
CrossPenaltyAbs(a, b) ==
    AccelPenaltyPerMille * (a.cost + b.cost)
        + 1000 * (IF b.cost >= a.cost THEN b.cost - a.cost ELSE a.cost - b.cost)

\* config.AccelPenaltyFactor*(a.cost+b.cost) + (b.cost - a.cost), in thousandths
CrossPenalty(a, b) == AccelPenaltyPerMille * (a.cost + b.cost) + 1000 * (b.cost - a.cost)

\* a.TransitionPenalty(b), in thousandths of the unit of cost
TransitionPenalty(a, b) ==
    IF a.accelerator = b.accelerator
    THEN IF a.numReplicas = b.numReplicas THEN 0 ELSE 1000 * (b.cost - a.cost)
    ELSE CrossPenalty(a, b)

\* faulty variant of InvalidCurrent: the batch size is not looked at
InvalidCurrentReplicas(a) == a.numReplicas < 1

\* "invalid current numReplicas or batchSize"
InvalidCurrent(a) == a.numReplicas < 1 \/ a.batchSize < 1

\* faulty variant of ScaleBy: the current number of replicas is not divided by
ScaleByNew(x, numReplicas, current) == x * numReplicas

\* x *= factor, with factor := float32(numReplicas) / float32(a.numReplicas)
ScaleBy(x, numReplicas, current) == (x * numReplicas) \div current

\* a.AdjustNumReplicas(numReplicas, server, model) for the server and the model
\* of these names: the outcome and the allocation as the call leaves it.  kind
\* is "err" for an error returned, "ok" for nil, and "fault" for the nil
\* pointer dereference of target.ITL when the service class or its target for
\* the model is missing, which comes after the first fields were written
AdjustNumReplicas(a, numReplicas, serverName, modelName) ==
    LET server == servers[serverName]
        load == server.load
        K == load.avgLength
        targets == IF server.class \in DOMAIN serviceClasses
                      /\ modelName \in DOMAIN serviceClasses[server.class].targets
                   THEN {serviceClasses[server.class].targets[modelName]}
                   ELSE {}
    IN  IF InvalidCurrent(a) THEN [kind |-> "err", a |-> a]
        ELSE IF ~load.present THEN [kind |-> "err", a |-> a]
        ELSE IF a.accelerator \notin DOMAIN models[modelName] THEN [kind |-> "err", a |-> a]
        ELSE LET perf == models[modelName][a.accelerator]
                 N == a.batchSize
                 stats == oracle[a.accelerator]
                 a1 == [a EXCEPT !.rho = stats.rho,
                                 !.servTime = stats.avgServTime \div K,
                                 !.waitTime = stats.avgWaitTime,
                                 !.cost = ScaleBy(a.cost, numReplicas, a.numReplicas),
                                 !.value = ScaleBy(a.value, numReplicas, a.numReplicas)]
                 lambdaMin == (ServRate(perf, 1, K) * DeltaPerMille) \div 1000
                 lambdaMax == (ServRate(perf, N, K) * (1000 - DeltaPerMille)) \div 1000
                 bsServ == BinarySearch(lambdaMin, lambdaMax, stats.serv)
                 bsWait == BinarySearch(lambdaMin, lambdaMax, stats.wait)
             IN  IF targets = {} THEN [kind |-> "fault", a |-> a1]
                 ELSE LET target == CHOOSE x \in targets : TRUE
                          lambdaStarService ==
                              IF target.ITL > 0 /\ ~bsServ.err THEN bsServ.lambda
                              ELSE lambdaMax
                          lambdaStarWait ==
                              IF target.TTW > 0 /\ ~bsWait.err THEN bsWait.lambda
                              ELSE lambdaMax
                          lambdaStarThroughput ==
                              IF target.TPS > 0
                              THEN (lambdaMax * (1000 - StabilitySafetyPerMille)) \div 1000
                              ELSE lambdaMax
                          lambdaStar == Min(Min(lambdaStarService, lambdaStarWait),
                                            lambdaStarThroughput)
                      IN  [kind |-> "ok",
                           a |-> [a1 EXCEPT !.maxArrvRatePerReplica = lambdaStar,
                                            !.numReplicas = numReplicas]]

----------------------------------------------------------------------------
(* SpecOps: one call of an operation on the allocation a of server s1 *)

\* the catalog, and the catalog with an accelerator that costs nothing
OpsCatalogs ==
    {Catalog, [Catalog EXCEPT !["G2"].cost = 0]}

\* the loads of the server: none, zero, positive; the average length is positive
OpsLoads ==
    {[present |-> FALSE, arrivalRate |-> 0, avgLength |-> 0],
     Load(-60, 100), Load(0, 100), Load(60, 100), Load(60 * MaxLoad, 100)}

OpsTargets == {Target(40, 1000, 0), Target(0, 0, 1000), Target(0, 0, 0)}

\* the registries: complete, or with the perf data of A100, the service class
\* or the target of the model missing
OpsRegistries ==
    {[m |-> ModelData, c |-> [x \in {"Premium"} |-> [priority |-> 1, targets |-> tg]]] :
        tg \in [{"m1"} -> OpsTargets]}
      \cup {[m |-> [x \in {"m1"} |-> [g \in {"G2"} |-> ModelData[x][g]]], c |-> ClassData],
            [m |-> ModelData, c |-> [x \in {"Bronze"} |-> ClassData[x]]],
            [m |-> ModelData,
             c |-> [x \in {"Premium"} |-> [priority |-> 1,
                                           targets |-> [y \in {"m2"} |-> Target(40, 1000, 0)]]]]}

\* the answers of the root finder for the service time; the wait is attainable
OpsOracles ==
    {[g \in DOMAIN Catalog |->
         [serv |-> a, wait |-> [kind |-> "ok", pos |-> OracleGrid],
          rho |-> 50, avgServTime |-> 3000, avgWaitTime |-> 100]] :
       a \in {[kind |-> "ok", pos |-> p] : p \in 1..OracleGrid}
                \cup {[kind |-> "below", pos |-> 0], [kind |-> "err", pos |-> 0]}}

\* the allocation a: on a registered accelerator or not, with a number of
\* replicas and a batch size that are valid or not
OpsAllocations ==
    {[accelerator |-> g, numReplicas |-> n, batchSize |-> b,
      cost |-> 4 * n, value |-> 4 * n, servTime |-> 30, waitTime |-> 0, rho |-> 0,
      maxArrvRatePerReplica |-> 60] :
        g \in {"A100", "G2", "H100"}, n \in 0..MaxMinReplicas, b \in {0, 4}}

\* the allocations b a transition is priced to
PenaltyArgs ==
    {[accelerator |-> g, numReplicas |-> n, batchSize |-> 4,
      cost |-> c, value |-> c, servTime |-> 30, waitTime |-> 0, rho |-> 0,
      maxArrvRatePerReplica |-> 60] :
        g \in {"A100", "G2"}, n \in 1..MaxMinReplicas, c \in {4, 8}}

InitOps ==
    /\ accelerators \in OpsCatalogs
    /\ capacity = EmptyMap
    /\ \E reg \in OpsRegistries : models = reg.m /\ serviceClasses = reg.c
    /\ \E m \in 0..MaxMinReplicas, load \in OpsLoads :
          servers = [s \in {"s1"} |->
                        [class |-> "Premium", model |-> "m1", minNumReplicas |-> m,
                         maxBatchSize |-> 0, load |-> load]]
    /\ oracle \in OpsOracles
    /\ \E a \in OpsAllocations :
          /\ allAllocs = [s \in {"s1"} |-> [g \in {a.accelerator} |-> a]]
          /\ allocation = [s \in {"s1"} |-> Ref("s1", a.accelerator)]
    /\ policy = ""
    /\ pc = "call"
    /\ available = EmptyMap
    /\ entries = <<>>
    /\ unallocated = <<>>
    /\ sat = EmptySat
    /\ out = NoCall

\* the allocation of server s1
Receiver == Obj(allocation["s1"])

\* allocBefore.Scale(serverName)
ScaleCall ==
    /\ pc = "call"
    /\ \E s \in {"s1", "s0"} :
          out' = [op |-> "Scale", server |-> s, acc |-> Receiver.accelerator,
                  arg |-> Receiver, result |-> Scale(Receiver, s), prev |-> <<>>]
    /\ pc' = "returned"
    /\ UNCHANGED <<dataVars, allAllocs, allocation, policy, available, entries,
                   unallocated, sat>>

\* allocBefore.ReAllocate(serverName), the map of accelerators ranged over in
\* any order
ReAllocateCall ==
    /\ pc = "call"
    /\ \E s \in {"s1", "s0"}, order \in Perms(DOMAIN accelerators) :
          out' = [op |-> "ReAllocate", server |-> s, acc |-> Receiver.accelerator,
                  arg |-> order, result |-> ReAllocate(s, order), prev |-> <<>>]
    /\ pc' = "returned"
    /\ UNCHANGED <<dataVars, allAllocs, allocation, policy, available, entries,
                   unallocated, sat>>

\* a.AdjustNumReplicas(numReplicas, server, model) for server s1 and its model,
\* as a first call or as the call that follows a first one that succeeded;
\* out.prev keeps the first call
AdjustNumReplicasCall ==
    /\ \/ pc = "call"
       \/ /\ pc = "returned"
          /\ out.op = "AdjustNumReplicas"
          /\ out.result = "ok"
          /\ out.prev = <<>>
    /\ servers["s1"].model \in DOMAIN models
    /\ \E numReplicas \in 1..(MaxMinReplicas + 1) :
          LET res == AdjustNumReplicas(Receiver, numReplicas, "s1", servers["s1"].model)
          IN  /\ allAllocs' = [allAllocs EXCEPT !["s1"][Receiver.accelerator] = res.a]
              /\ out' = [op |-> "AdjustNumReplicas", server |-> "s1",
                         acc |-> Receiver.accelerator,
                         arg |-> [a |-> Receiver, numReplicas |-> numReplicas],
                         result |-> res.kind,
                         prev |-> IF pc = "call" THEN <<>> ELSE [out EXCEPT !.prev = <<>>]]
    /\ pc' = "returned"
    /\ UNCHANGED <<dataVars, allocation, policy, available, entries, unallocated, sat>>

\* a.TransitionPenalty(b)
TransitionPenaltyCall ==
    /\ pc = "call"
    /\ \E b \in PenaltyArgs :
          out' = [op |-> "TransitionPenalty", server |-> "s1", acc |-> Receiver.accelerator,
                  arg |-> [a |-> Receiver, b |-> b],
                  result |-> TransitionPenalty(Receiver, b), prev |-> <<>>]
    /\ pc' = "returned"
    /\ UNCHANGED <<dataVars, allAllocs, allocation, policy, available, entries,
                   unallocated, sat>>

NextOps ==
    \/ ScaleCall
    \/ ReAllocateCall
    \/ AdjustNumReplicasCall
    \/ TransitionPenaltyCall

SpecOps == InitOps /\ [][NextOps]_vars

----------------------------------------------------------------------------
(* Properties of the operations on an allocation (SpecOps) *)

\* the feasibility evaluation of the Scale call that returned fails: the
\* server, its load or the accelerator of a is missing, or CreateAllocation
\* returns nil
ScaleEvaluationFails ==
    \/ out.server \notin DOMAIN servers
    \/ ~servers[out.server].load.present
    \/ out.arg.accelerator \notin DOMAIN accelerators
    \/ CreateAllocation(out.server, out.arg.accelerator) = {}

\* C13: whenever the feasibility evaluation fails, Scale returns (nil, 0); it
\* never faults
C13_ScaleFailureReturnsNil ==
    (pc = "returned" /\ out.op = "Scale") =>
        /\ out.result.kind # "fault"
        /\ ScaleEvaluationFails => (out.result.kind = "nil" /\ out.result.inc = 0)

\* C14: when the feasibility evaluation succeeds, Scale returns the allocation
\* CreateAllocation gives for the accelerator of a under the load the server
\* has, on the same accelerator, with the difference of the replica counts,
\* and leaves a as it was
C14_ScaleReturnsEvaluation ==
    (pc = "returned" /\ out.op = "Scale" /\ ~ScaleEvaluationFails) =>
        /\ out.result.kind = "ok"
        /\ out.result.alloc = CreateAllocation(out.server, out.arg.accelerator)
        /\ \A x \in out.result.alloc :
              /\ x.accelerator = out.arg.accelerator
              /\ out.result.inc = x.numReplicas - out.arg.numReplicas
        /\ Receiver = out.arg

\* a Scale call under a positive load returned an allocation whose number of
\* replicas is not the one a has
C14_Witness ==
    /\ pc = "returned"
    /\ out.op = "Scale"
    /\ out.result.kind = "ok"
    /\ out.result.inc # 0
    /\ servers[out.server].load.arrivalRate > 0

\* the feasible allocations of a server over all accelerators of the catalog
Feasible(serverName) ==
    UNION {CreateAllocation(serverName, g) : g \in DOMAIN accelerators}

\* C15: ReAllocate returns a feasible allocation whose value is at most the
\* value of every feasible allocation of the server, whatever the values (0
\* included) and the order of iteration, and nil exactly when no accelerator
\* is feasible
C15_ReAllocateMinimal ==
    (pc = "returned" /\ out.op = "ReAllocate") =>
        /\ (out.result = {}) <=> (Feasible(out.server) = {})
        /\ \A x \in out.result :
              /\ x \in Feasible(out.server)
              /\ \A y \in Feasible(out.server) : x.value <= y.value

\* |x|
Abs(x) == IF x >= 0 THEN x ELSE -x

\* C16: between two allocations on the same accelerator the penalty is the
\* absolute difference of the costs, and the penalties of the two directions
\* add up to twice that, whatever the costs and the replica counts
C16_SameAcceleratorPenalty ==
    (pc = "returned" /\ out.op = "TransitionPenalty"
        /\ out.arg.a.accelerator = out.arg.b.accelerator) =>
        /\ out.result = 1000 * Abs(out.arg.b.cost - out.arg.a.cost)
        /\ out.result + TransitionPenalty(out.arg.b, out.arg.a)
              = 2 * 1000 * Abs(out.arg.b.cost - out.arg.a.cost)

\* C17: between two allocations on different accelerators the penalty is
\* AccelPenaltyFactor * (a.cost + b.cost) + (b.cost - a.cost), and the
\* penalties of the two directions add up to
\* 2 * AccelPenaltyFactor * (a.cost + b.cost)
C17_CrossAcceleratorPenalty ==
    (pc = "returned" /\ out.op = "TransitionPenalty"
        /\ out.arg.a.accelerator # out.arg.b.accelerator) =>
        /\ out.result = AccelPenaltyPerMille * (out.arg.a.cost + out.arg.b.cost)
                            + 1000 * (out.arg.b.cost - out.arg.a.cost)
        /\ out.result + TransitionPenalty(out.arg.b, out.arg.a)
              = 2 * AccelPenaltyPerMille * (out.arg.a.cost + out.arg.b.cost)

\* a transition to a cheaper allocation on another accelerator was priced
C17_Witness ==
    /\ pc = "returned"
    /\ out.op = "TransitionPenalty"
    /\ out.arg.a.accelerator # out.arg.b.accelerator
    /\ out.arg.b.cost < out.arg.a.cost
    /\ out.result < 0

\* the AdjustNumReplicas call that returned was made on an allocation with
\* fewer than one replica or a batch size below one, for a server without a
\* load spec, or for a model without perf data for the accelerator
AdjustPreconditionFails ==
    \/ out.arg.a.numReplicas < 1
    \/ out.arg.a.batchSize < 1
    \/ ~servers[out.server].load.present
    \/ out.arg.a.accelerator \notin DOMAIN models[servers[out.server].model]

\* C20: AdjustNumReplicas returns an error when the current number of replicas
\* or the batch size is below 1, when the server has no load spec, or when the
\* model has no perf data for the accelerator, and changes no field of the
\* allocation then
C20_AdjustErrorsChangeNothing ==
    (pc = "returned" /\ out.op = "AdjustNumReplicas" /\ AdjustPreconditionFails) =>
        /\ out.result = "err"
        /\ Receiver = out.arg.a

\* an allocation with replicas and a batch size of 0 was adjusted to another
\* number of replicas, load and perf data being there
C20_Witness ==
    /\ pc = "returned"
    /\ out.op = "AdjustNumReplicas"
    /\ out.arg.a.numReplicas >= 1
    /\ out.arg.a.batchSize < 1
    /\ out.arg.numReplicas # out.arg.a.numReplicas
    /\ servers[out.server].load.present
    /\ out.arg.a.accelerator \in DOMAIN models[servers[out.server].model]
    /\ out.result = "err"

\* the unit costs an allocation of the model can have
UnitCosts == 0..(4 * (MaxMinReplicas + 1))

\* C21: a successful AdjustNumReplicas(n') sets numReplicas to n', multiplies
\* cost and value by n' / (the number of replicas before), and leaves
\* accelerator and batchSize alone; an allocation with cost = unitCost *
\* numReplicas keeps that equation, and adjusting back to the number of
\* replicas before the first call restores cost and value
C21_AdjustScalesCost ==
    (pc = "returned" /\ out.op = "AdjustNumReplicas" /\ out.result = "ok") =>
        /\ Receiver.numReplicas = out.arg.numReplicas
        /\ Receiver.cost * out.arg.a.numReplicas = out.arg.a.cost * out.arg.numReplicas
        /\ Receiver.value * out.arg.a.numReplicas = out.arg.a.value * out.arg.numReplicas
        /\ Receiver.accelerator = out.arg.a.accelerator
        /\ Receiver.batchSize = out.arg.a.batchSize
        /\ \A u \in UnitCosts :
              out.arg.a.cost = u * out.arg.a.numReplicas
                  => Receiver.cost = u * Receiver.numReplicas
        /\ (out.prev # <<>> /\ out.arg.numReplicas = out.prev.arg.a.numReplicas) =>
              /\ Receiver.cost = out.prev.arg.a.cost
              /\ Receiver.value = out.prev.arg.a.value

\* an allocation of two replicas or more was adjusted to another number of
\* replicas and then back
C21_Witness ==
    /\ pc = "returned"
    /\ out.op = "AdjustNumReplicas"
    /\ out.result = "ok"
    /\ out.prev # <<>>
    /\ out.prev.arg.a.numReplicas >= 2
    /\ out.prev.arg.numReplicas # out.prev.arg.a.numReplicas
    /\ out.arg.numReplicas = out.prev.arg.a.numReplicas
    /\ Receiver.cost = out.prev.arg.a.cost
    /\ Receiver.cost > 0

----------------------------------------------------------------------------
(* Properties of a solve (Spec), continued *)

\* the allocation a of server s costs what its replicas cost on its accelerator
\* and has that cost for value
CostFormula(s, a) ==
    /\ a.cost = accelerators[a.accelerator].cost
                   * NumInstances(servers[s].model, a.accelerator) * a.numReplicas
    /\ a.value = a.cost

\* the allocation CreateAllocation made for the candidate a reference points to
Created(r) == CHOOSE a \in CreateAllocation(r.owner, r.acc) : TRUE

\* C22: every allocation CreateAllocation produced, and every allocation a
\* server holds after a solve, one with a replica count reduced by a saturation
\* policy included, has cost = acc.cost * NumInstances(model, accelerator) *
\* numReplicas and value = cost
C22_CostFormula ==
    /\ \A s \in DOMAIN allAllocs :
          \A g \in DOMAIN allAllocs[s] : CostFormula(s, allAllocs[s][g])
    /\ pc = "done" =>
          \A s \in ServerNames : Assigned(s) => CostFormula(s, Obj(allocation[s]))

\* a solve ended with a server holding an allocation whose replica count a
\* saturation policy reduced
C22_Witness ==
    /\ pc = "done"
    /\ policy # "None"
    /\ \E s \in Names(unallocated) :
          /\ Assigned(s)
          /\ Obj(allocation[s]).numReplicas < Created(allocation[s]).numReplicas
          /\ Obj(allocation[s]).cost > 0

\* "start allocation greedily, in order" run to its end from the residual list
\* es, the available map avail and the servers' allocations alloc: what the
\* servers hold when the list is empty
RECURSIVE MainPass(_, _, _)
MainPass(es, avail, alloc) ==
    IF Len(es) = 0 THEN alloc
    ELSE LET top == es[1]
             rest == Tail1(es)
             serverName == top.serverName
             a == top.allocations[top.curIndex + 1]
             gName == Obj(a).accelerator
             tName == accelerators[gName].type
             count == Obj(a).numReplicas * UnitsPerReplica(serverName, gName)
             next == NextCandidate(top)
         IN  IF Len(top.allocations) = 0 THEN MainPass(rest, avail, alloc)
             ELSE IF IsAvailable(avail, tName, count)
             THEN MainPass(rest, MapPut(avail, tName, MapGet(avail, tName) - count),
                           SetAllocation(alloc, serverName, a))
             ELSE IF next.curIndex = Len(next.allocations)
             THEN MainPass(rest, avail, alloc)
             ELSE MainPass(Reorder(rest, next), avail, alloc)

\* the lists of entries SolveGreedy can start its main pass with, over the
\* orders in which the maps of servers and candidates can be ranged
PossibleEntries ==
    LET W == {s \in DOMAIN servers : DOMAIN allAllocs[s] # {}}
        Q == UNION {SortedAllocations(s) : s \in W}
    IN  UNION {SortedEntries({NewEntry(s, f[s]) : s \in W}) :
                  f \in {h \in [W -> Q] : \A s \in W : h[s] \in SortedAllocations(s)}}

\* C23: the result of SolveGreedy does not depend on the order in which the
\* maps of servers and accelerators are ranged: at the end of the main pass
\* every server holds what it would hold after a run on the same data that
\* started from any other order the sorts can give
C23_ResultIndependentOfOrder ==
    (pc = "main" /\ Len(entries) = 0) =>
        \A es \in PossibleEntries :
            MainPass(es, capacity, ClearedAllocations) = allocation

----------------------------------------------------------------------------
(* rest-server/handlers.go: SpecRest, two requests served at the same time. *)
(* gin runs every handler on a goroutine of its own, and the handlers work  *)
(* on the package variable system.  Here pc[r] is the position of request   *)
(* r in its handler, out[r] its handler and response, and sat the set of    *)
(* requests whose manager was made for a system that has been replaced.     *)

Requests == {"r1", "r2"}

\* the server specs a request body can carry
RestServer(s) ==
    IF s = "s1" THEN Server("Premium", "m1", 1, 60) ELSE Server("Premium", "m1", 1, 120)

RestServerNames == {"s1", "s2"}

RestServerSets == {[s \in S |-> RestServer(s)] : S \in SUBSET RestServerNames}

\* delete(m, k)
MapRemove(m, k) == [x \in DOMAIN m \ {k} |-> m[x]]

\* the response of handler h with body b
Response(h, b) ==
    [op |-> h, server |-> "", acc |-> "", arg |-> <<>>, result |-> b, prev |-> <<>>]

InitRest ==
    /\ accelerators = Catalog
    /\ capacity \in {c \in CapacityData : "G2" \in DOMAIN c /\ c["A100"] \in {1, MaxCap}}
    /\ models = ModelData
    /\ serviceClasses = ClassData
    /\ servers \in RestServerSets
    /\ oracle = OracleData
    /\ allAllocs = [s \in DOMAIN servers |-> EmptyMap]
    /\ allocation = [s \in DOMAIN servers |-> NilRef]
    /\ policy = "None"
    /\ pc = [r \in Requests |-> "idle"]
    /\ available = EmptyMap
    /\ entries = <<>>
    /\ unallocated = <<>>
    /\ sat = {}
    /\ out = [r \in Requests |-> NoCall]

\* setServers: system.SetServersFromSpec(&serverData)
SetServers(r) ==
    /\ pc[r] = "idle"
    /\ \E d \in RestServerSets :
          /\ servers' = d
          /\ allAllocs' = [s \in DOMAIN d |-> EmptyMap]
          /\ allocation' = [s \in DOMAIN d |-> NilRef]
          /\ out' = [out EXCEPT ![r] = Response("setServers", DOMAIN d)]
    /\ pc' = [pc EXCEPT ![r] = "done"]
    /\ UNCHANGED <<accelerators, capacity, models, serviceClasses, oracle, policy,
                   available, entries, unallocated, sat>>

\* addServer: system.AddServerFromSpec(server)
AddServer(r) ==
    /\ pc[r] = "idle"
    /\ \E s \in RestServerNames :
          /\ servers' = MapPut(servers, s, RestServer(s))
          /\ allAllocs' = MapPut(allAllocs, s, EmptyMap)
          /\ allocation' = MapPut(allocation, s, NilRef)
          /\ out' = [out EXCEPT ![r] = Response("addServer", {s})]
    /\ pc' = [pc EXCEPT ![r] = "done"]
    /\ UNCHANGED <<accelerators, capacity, models, serviceClasses, oracle, policy,
                   available, entries, unallocated, sat>>

\* removeServer: system.RemoveServer(name), not found when there is none
RemoveServer(r) ==
    /\ pc[r] = "idle"
    /\ \E s \in RestServerNames :
          IF s \in DOMAIN servers
          THEN /\ servers' = MapRemove(servers, s)
               /\ allAllocs' = MapRemove(allAllocs, s)
               /\ allocation' = MapRemove(allocation, s)
               /\ out' = [out EXCEPT ![r] = Response("removeServer", {s})]
          ELSE /\ out' = [out EXCEPT ![r] = Response("removeServer", {})]
               /\ UNCHANGED <<servers, allAllocs, allocation>>
    /\ pc' = [pc EXCEPT ![r] = "done"]
    /\ UNCHANGED <<accelerators, capacity, models, serviceClasses, oracle, policy,
                   available, entries, unallocated, sat>>

\* optimize and optimizeOne up to manager.NewManager(system, optimizer);
\* optimizeOne first puts a fresh system in the place of the one there is
OptimizeStart(r) ==
    /\ pc[r] = "idle"
    /\ \/ /\ out' = [out EXCEPT ![r] = Response("optimize", <<>>)]
          /\ sat' = sat \ {r}
          /\ UNCHANGED <<servers, allAllocs, allocation>>
       \/ \E d \in RestServerSets :
             /\ servers' = d
             /\ allAllocs' = [s \in DOMAIN d |-> EmptyMap]
             /\ allocation' = [s \in DOMAIN d |-> NilRef]
             /\ out' = [out EXCEPT ![r] = Response("optimizeOne", <<>>)]
             /\ sat' = (sat \ {r})
                          \cup {q \in Requests \ {r} : pc[q] \in {"started", "calculated"}}
    /\ pc' = [pc EXCEPT ![r] = "started"]
    /\ UNCHANGED <<accelerators, capacity, models, serviceClasses, oracle, policy,
                   available, entries, unallocated>>

\* system.Calculate()
RestCalculate(r) ==
    /\ pc[r] = "started"
    /\ allAllocs' = AllAllocations
    /\ pc' = [pc EXCEPT ![r] = "calculated"]
    /\ UNCHANGED <<dataVars, out, allocation, policy, available, entries, unallocated, sat>>

\* manager.Optimize(): the solve, on the system the manager was made for
RestOptimize(r) ==
    /\ pc[r] = "calculated"
    /\ IF r \in sat
       THEN UNCHANGED allocation
       ELSE \E es \in PossibleEntries :
               allocation' = MainPass(es, capacity, ClearedAllocations)
    /\ pc' = [pc EXCEPT ![r] = "optimized"]
    /\ UNCHANGED <<dataVars, out, allAllocs, policy, available, entries, unallocated, sat>>

\* system.GenerateSolution() and the response: the accelerator of every server
\* that holds an allocation
GenerateSolution(r) ==
    /\ pc[r] = "optimized"
    /\ out' = [out EXCEPT ![r].result =
                  [s \in {x \in DOMAIN servers : allocation[x] # NilRef} |->
                      allocation[s].acc]]
    /\ pc' = [pc EXCEPT ![r] = "done"]
    /\ UNCHANGED <<dataVars, allAllocs, allocation, policy, available, entries,
                   unallocated, sat>>

NextRest ==
    \E r \in Requests :
        \/ SetServers(r)
        \/ AddServer(r)
        \/ RemoveServer(r)
        \/ OptimizeStart(r)
        \/ RestCalculate(r)
        \/ RestOptimize(r)
        \/ GenerateSolution(r)

SpecRest == InitRest /\ [][NextRest]_vars

\* the positions of a request between its first step into optimize or
\* optimizeOne and its response
InSolve == {"started", "calculated", "optimized"}

\* C24: the handlers that change the data model and the handlers that run the
\* solver exclude one another: while a request is between the start of its
\* Calculate, Optimize, GenerateSolution sequence and its response, no other
\* request takes a step
C24_SolverSerialized ==
    [][\A r \in Requests :
          pc[r] \in InSolve => \A q \in Requests \ {r} : pc'[q] = pc[q]]_vars

----------------------------------------------------------------------------
(* Properties of a solve (Spec): the main pass *)

\* the candidate list of entry e ascends in value and holds no nil
CandidatesSorted(e) ==
    /\ \A i \in 1..Len(e.allocations) :
          /\ e.allocations[i] # NilRef
          /\ e.allocations[i].owner = e.serverName
          /\ e.allocations[i].acc \in DOMAIN allAllocs[e.serverName]
    /\ \A i, j \in 1..Len(e.allocations) :
          i < j => Obj(e.allocations[i]).value <= Obj(e.allocations[j]).value

\* C25: at every point of the main pass the candidate list of every entry, on
\* the residual list or on the unallocated list, is sorted in ascending value
\* and contains no nil
C25_CandidatesSorted ==
    pc = "main" =>
        /\ \A k \in 1..Len(entries) : CandidatesSorted(entries[k])
        /\ \A k \in 1..Len(unallocated) : CandidatesSorted(unallocated[k])

\* the main pass has moved an entry of three candidates of different values
\* past its first candidate
C25_Witness ==
    /\ pc = "main"
    /\ \E k \in 1..Len(entries) :
          LET e == entries[k]
          IN  /\ e.curIndex > 0
              /\ Len(e.allocations) = 3
              /\ Obj(e.allocations[1]).value < Obj(e.allocations[2]).value
              /\ Obj(e.allocations[2]).value < Obj(e.allocations[3]).value

\* the units of its type a replica of model m on accelerator g occupies:
\* perf.accCount * acc.multiplicity
UnitsOccupied(m, g) == models[m][g].accCount * accelerators[g].multiplicity

C27_PriorityOrder ==
    pc = "main" =>
        \A k \in 1..Len(entries) :
            /\ entries[1].priority <= entries[k].priority
            /\ \A s \in ServerNames : Assigned(s) => Priority(s) <= entries[k].priority
            /\ \A j \in 1..Len(unallocated) :
                  unallocated[j].priority <= entries[k].priority

\* an entry was refused a candidate and put back ahead of an entry of a larger
\* priority number, after a server had been assigned
C27_Witness ==
    /\ pc = "main"
    /\ Len(entries) >= 2
    /\ entries[1].curIndex > 0
    /\ entries[1].priority < entries[Len(entries)].priority
    /\ \E s \in ServerNames : Assigned(s)

\* C28: at the end of SolveGreedy, under every saturation policy and for every
\* accelerator type, what was deducted from the capacity is what the servers
\* hold: units per replica, as the solver counts them, times the replicas
\* assigned
C28_DeductedEqualsAssigned ==
    pc = "done" =>
        \A t \in Types \cup DOMAIN available \cup DOMAIN capacity :
            MapGet(capacity, t) - MapGet(available, t) = SumUnitsHeld(ServerNames, t)

\* a solve ended in which the main pass assigned a server and the groups of
\* PriorityRoundRobin another, with units of a type left over
C28_Witness ==
    /\ pc = "done"
    /\ policy = "PriorityRoundRobin"
    /\ \E s \in Names(unallocated) : Assigned(s)
    /\ \E s \in ServerNames \ Names(unallocated) : Assigned(s)
    /\ \E t \in DOMAIN capacity :
          /\ available[t] > 0
          /\ available[t] < capacity[t]

\* C29: every server a saturation policy assigns ends with at least one
\* replica and with fewer replicas than its chosen candidate had before the
\* saturation pass
C29_SaturationReduces ==
    Solving =>
        \A s \in Names(unallocated) :
            Assigned(s) =>
                /\ Obj(allocation[s]).numReplicas >= 1
                /\ Obj(allocation[s]).numReplicas < Created(allocation[s]).numReplicas

\* PriorityExhaustive gave a server two replicas or more of a candidate that
\* asked for more
C29_Witness ==
    /\ pc = "done"
    /\ policy = "PriorityExhaustive"
    /\ \E s \in Names(unallocated) :
          /\ Assigned(s)
          /\ Obj(allocation[s]).numReplicas >= 2
          /\ Obj(allocation[s]).numReplicas < Created(allocation[s]).numReplicas

\* C30: every entry of the residual list has for delta the value of the
\* candidate after the current one less the value of the current one, or the
\* largest finite float when the current candidate is the last; delta is never
\* negative
C30_DeltaOfEntry ==
    pc = "main" =>
        \A k \in 1..Len(entries) :
            LET e == entries[k]
            IN  /\ e.curIndex < Len(e.allocations)
                /\ e.delta = IF e.curIndex + 1 < Len(e.allocations)
                             THEN Obj(e.allocations[e.curIndex + 2]).value
                                     - Obj(e.allocations[e.curIndex + 1]).value
                             ELSE MaxFloat32
                /\ e.delta >= 0

\* the residual list holds an entry moved to its last candidate and an entry
\* with a dearer candidate after its current one
C30_Witness ==
    /\ pc = "main"
    /\ \E k \in 1..Len(entries) :
          /\ entries[k].curIndex = 2
          /\ Len(entries[k].allocations) = 3
          /\ entries[k].delta = MaxFloat32
    /\ \E k \in 1..Len(entries) :
          /\ entries[k].curIndex + 1 < Len(entries[k].allocations)
          /\ entries[k].delta > 0
          /\ entries[k].delta < MaxFloat32

----------------------------------------------------------------------------
(* Properties of a solve (Spec): frame, termination, order of the lists *)

\* C31: a solve changes no candidate in place: through SolveGreedy, under
\* every saturation policy, every candidate of every server has the
\* numReplicas, cost and value that System.Calculate gave it
C31_CandidatesNotMutated ==
    Solving =>
        \A s \in DOMAIN allAllocs :
            \A g \in DOMAIN allAllocs[s] :
                /\ allAllocs[s][g].numReplicas = Created(Ref(s, g)).numReplicas
                /\ allAllocs[s][g].cost = Created(Ref(s, g)).cost
                /\ allAllocs[s][g].value = Created(Ref(s, g)).value

\* the solves on a capacity that leaves servers to the saturation policies
InitLive ==
    /\ Init
    /\ capacity["A100"] <= 2
    /\ servers["s1"].minNumReplicas = 1
    /\ allocation = [s \in ServerNames |-> NilRef]

\* SolveGreedy is a sequential procedure that runs on: a step that can be
\* taken is taken
SpecLive == InitLive /\ [][Next]_vars /\ WF_vars(Next)

\* the candidates the entries of a list have not yet been refused
RECURSIVE CandidatesLeft(_)
CandidatesLeft(list) ==
    IF Len(list) = 0 THEN 0
    ELSE (Len(list[1].allocations) - list[1].curIndex) + CandidatesLeft(Tail1(list))

\* the candidates of all servers
RECURSIVE TotalCandidates(_)
TotalCandidates(S) ==
    IF S = {} THEN 0
    ELSE LET s == CHOOSE x \in S : TRUE
         IN  Cardinality(DOMAIN allAllocs[s]) + TotalCandidates(S \ {s})

\* the units available over all types
RECURSIVE TotalAvailable(_, _)
TotalAvailable(avail, T) ==
    IF T = {} THEN 0
    ELSE LET x == CHOOSE y \in T : TRUE
         IN  avail[x] + TotalAvailable(avail, T \ {x})

\* every pop of the main loop uses up a candidate, of which there are at most
\* as many as the servers have
PopsBounded ==
    /\ [](pc = "main" => CandidatesLeft(entries) <= TotalCandidates(DOMAIN allAllocs))
    /\ [][(pc = "main" /\ Len(entries) > 0)
             => CandidatesLeft(entries') < CandidatesLeft(entries)]_vars

\* a visit of the round robin to a member that has a ticket gives it a replica,
\* which takes units from what is available, or removes its ticket
VisitProgresses ==
    [][(pc = "roundrobin" /\ sat.pos <= Len(sat.group)
           /\ sat.group[sat.pos].serverName \in sat.tickets)
          => \/ /\ DOMAIN available' = DOMAIN available
                /\ TotalAvailable(available', DOMAIN available)
                      < TotalAvailable(available, DOMAIN available)
                /\ sat'.tickets = sat.tickets
             \/ /\ available' = available
                /\ sat'.tickets = sat.tickets \ {sat.group[sat.pos].serverName}]_vars

\* C32: SolveGreedy terminates under every saturation policy: the main loop
\* pops at most as many times as there are candidates, every visit of the
\* round robin gives a replica or removes a ticket, and the solve reaches its
\* end
C32_Terminates ==
    /\ <>(pc = "done")
    /\ PopsBounded
    /\ VisitProgresses

\* a solve ended after the round robin went around a run of two servers more
\* than once
C32_Witness ==
    /\ pc = "done"
    /\ policy \in {"PriorityRoundRobin", "RoundRobin"}
    /\ Len(unallocated) >= 2
    /\ \E s \in Names(unallocated) :
          /\ Assigned(s)
          /\ Obj(allocation[s]).numReplicas >= 2
    /\ \E k \in 1..Len(unallocated) : unallocated[k].curIndex = 3

\* C33: SolveGreedy works on a copy of the capacity map: every solve starts
\* its main pass with available equal to the global capacities, and no step of
\* a solve, under any saturation policy, changes the global capacities
C33_CapacityKept ==
    [][/\ capacity' = capacity
       /\ pc = "solve" => available' = capacity]_vars

\* a solve ended, under a saturation policy, having used up all units of a type
\* that has capacity
C33_Witness ==
    /\ pc = "done"
    /\ policy # "None"
    /\ sat.list # <<>>
    /\ \E t \in DOMAIN capacity :
          /\ capacity[t] >= 2
          /\ available[t] = 0

\* C34: the unallocated list is in non-decreasing order of priority number, as
\* it grows and when the saturation policies get it, so PriorityExhaustive goes
\* through it from the highest priority down and every run PriorityRoundRobin
\* forms holds all the entries of its priority
C34_UnallocatedInPriorityOrder ==
    Solving =>
        /\ \A i, j \in 1..Len(unallocated) :
              i < j => unallocated[i].priority <= unallocated[j].priority
        /\ pc \in {"exhaustive", "groups"} => sat.list = unallocated
        /\ (pc = "roundrobin" /\ policy = "PriorityRoundRobin") =>
              \A k \in 1..Len(unallocated) :
                  unallocated[k].priority = sat.group[1].priority
                      <=> unallocated[k].serverName \in Names(sat.group)

\* PriorityRoundRobin went through an unallocated list of three servers of two
\* priorities
C34_Witness ==
    /\ pc = "done"
    /\ policy = "PriorityRoundRobin"
    /\ Len(unallocated) = 3
    /\ unallocated[1].priority < unallocated[3].priority

\* candidate r of server s asks for more units, as the main pass counts them,
\* than are available of its type
DoesNotFit(s, r) ==
    Obj(r).numReplicas * UnitsPerReplica(s, Obj(r).accelerator)
        > MapGet(available, accelerators[Obj(r).accelerator].type)

\* C35: through the main pass and at its end, the candidates an entry has been
\* moved past do not fit in what is left, and so no assigned server has a
\* candidate of lower value that fits: none could move to a cheaper candidate
\* of its own on leftover capacity
C35_CheaperCandidatesDoNotFit ==
    pc = "main" =>
        /\ \A k \in 1..Len(entries) :
              \A j \in 1..entries[k].curIndex :
                  DoesNotFit(entries[k].serverName, entries[k].allocations[j])
        /\ \A k \in 1..Len(unallocated) :
              \A j \in 1..Len(unallocated[k].allocations) :
                  DoesNotFit(unallocated[k].serverName, unallocated[k].allocations[j])
        /\ \A s \in ServerNames :
              Assigned(s) =>
                  \A g \in DOMAIN allAllocs[s] :
                      allAllocs[s][g].value < Obj(allocation[s]).value
                          => DoesNotFit(s, Ref(s, g))

\* the main pass ended with a server on a candidate that is not its cheapest
\* and units left of a type
C35_Witness ==
    /\ pc = "main"
    /\ Len(entries) = 0
    /\ \E s \in ServerNames :
          /\ Assigned(s)
          /\ \E g \in DOMAIN allAllocs[s] :
                allAllocs[s][g].value < Obj(allocation[s]).value
    /\ \E t \in DOMAIN available : available[t] > 0

\* the number of entries of a list that belong to server s
Occurrences(list, s) == Cardinality({k \in 1..Len(list) : list[k].serverName = s})

\* C36: in the main pass every server with a candidate is in exactly one place,
\* once: on the residual list, assigned one of its own candidates, or on the
\* unallocated list; at the end of the pass, the residual list being empty, it
\* is either assigned or unallocated, never both, and never unallocated twice
C36_AssignedOrUnallocated ==
    pc = "main" =>
        \A s \in DOMAIN servers :
            /\ DOMAIN allAllocs[s] # {} =>
                  /\ Occurrences(entries, s) + Occurrences(unallocated, s)
                        + (IF Assigned(s) THEN 1 ELSE 0) = 1
                  /\ Assigned(s) =>
                        /\ allocation[s].owner = s
                        /\ allocation[s].acc \in DOMAIN allAllocs[s]
            /\ DOMAIN allAllocs[s] = {} =>
                  /\ Occurrences(entries, s) + Occurrences(unallocated, s) = 0
                  /\ ~Assigned(s)

\* the main pass ended with servers assigned and servers unallocated
C36_Witness ==
    /\ pc = "main"
    /\ Len(entries) = 0
    /\ Len(unallocated) >= 2
    /\ \E s \in DOMAIN servers : Assigned(s)
    /\ \E k \in 1..Len(unallocated) : Len(unallocated[k].allocations) >= 2

\* C37: in the main pass the curIndex of every entry of the residual list is a
\* valid index of its candidate list (0 <= curIndex < len(allocations)), so the
\* comparator and the pop step index inside the list; an entry has
\* curIndex = len(allocations) exactly when it is on the unallocated list, and
\* gets there in the step that takes it off the residual list
C37_CurIndexInRange ==
    /\ pc = "main" =>
          /\ \A k \in 1..Len(entries) :
                /\ 0 <= entries[k].curIndex
                /\ entries[k].curIndex < Len(entries[k].allocations)
          /\ \A k \in 1..Len(unallocated) :
                unallocated[k].curIndex = Len(unallocated[k].allocations)
    /\ (pc = "main" /\ Len(entries) > 0) =>
          LET top == entries[1]
          IN  NextCandidate(top).curIndex <= Len(top.allocations)

\* an entry on the unallocated list went through three candidates while another
\* entry, moved past a candidate, is still on the residual list
C37_Witness ==
    /\ pc = "main"
    /\ \E k \in 1..Len(unallocated) : unallocated[k].curIndex = 3
    /\ \E k \in 1..Len(entries) :
          /\ entries[k].curIndex >= 1
          /\ entries[k].curIndex = Len(entries[k].allocations) - 1

----------------------------------------------------------------------------
(* rest-server: the addServiceClass handler (SpecSvc) *)

\* config.DefaultServiceClassPriority
DefaultServiceClassPriority == 100

\* a URL parameter is a sequence of characters
DigitValue ==
    [c \in {"0", "1", "2", "3", "4", "5", "6", "7", "8", "9"} |->
        CASE c = "0" -> 0 [] c = "1" -> 1 [] c = "2" -> 2 [] c = "3" -> 3
          [] c = "4" -> 4 [] c = "5" -> 5 [] c = "6" -> 6 [] c = "7" -> 7
          [] c = "8" -> 8 [] c = "9" -> 9]

\* the loop of strconv.Atoi over the characters after the sign: n = n*10 + digit,
\* an error at the first character that is not a digit
RECURSIVE AtoiDigits(_, _)
AtoiDigits(s, n) ==
    IF Len(s) = 0 THEN [err |-> FALSE, value |-> n]
    ELSE IF s[1] \notin DOMAIN DigitValue THEN [err |-> TRUE, value |-> 0]
    ELSE AtoiDigits(Tail1(s), n * 10 + DigitValue[s[1]])

\* faulty variant of Atoi: what is not a number is read as 0, without an error
AtoiLenient(s) ==
    LET body == IF Len(s) > 0 /\ s[1] \in {"+", "-"} THEN Tail1(s) ELSE s
        r == AtoiDigits(body, 0)
    IN  IF Len(body) = 0 \/ r.err THEN [err |-> FALSE, value |-> 0]
        ELSE [err |-> FALSE, value |-> IF s[1] = "-" THEN 0 - r.value ELSE r.value]

\* strconv.Atoi(s): an optional sign, then one or more decimal digits
Atoi(s) ==
    LET body == IF Len(s) > 0 /\ s[1] \in {"+", "-"} THEN Tail1(s) ELSE s
        r == AtoiDigits(body, 0)
    IN  IF Len(body) = 0 \/ r.err THEN [err |-> TRUE, value |-> 0]
        ELSE [err |-> FALSE, value |-> IF s[1] = "-" THEN 0 - r.value ELSE r.value]

\* System.AddServiceClass(name, priority): a new class of that priority, without
\* targets, under the name
AddServiceClass(classes, name, priority) ==
    MapPut(classes, name, [priority |-> priority, targets |-> EmptyMap])

\* the names and the priority parameters of the requests
SvcNames == {"Premium", "Gold"}
SvcParams ==
    {<<>>, <<"1">>, <<"5", "0">>, <<"1", "0", "0">>, <<"0", "0", "7">>, <<"+", "7">>,
     <<"-", "3">>, <<"0">>, <<"1", "0", "1">>, <<"x">>, <<"1", "x">>, <<"-">>,
     <<"7", " ">>, <<"1", ".", "5">>}

InitSvc ==
    /\ accelerators = Catalog
    /\ capacity = EmptyMap
    /\ models = ModelData
    /\ serviceClasses = ClassData
    /\ servers = EmptyMap
    /\ oracle = OracleData
    /\ allAllocs = EmptyMap
    /\ allocation = EmptyMap
    /\ policy = "None"
    /\ pc = "serve"
    /\ available = EmptyMap
    /\ entries = <<>>
    /\ unallocated = <<>>
    /\ sat = EmptySat
    /\ out = [handler |-> "", name |-> "", param |-> <<>>, status |-> "", added |-> 0]

\* addServiceClass: the request for class name with priority parameter prioStr
AddServiceClassRequest(name, prioStr) ==
    /\ pc = "serve"
    /\ LET parsed == Atoi(prioStr)
           priority == IF prioStr # <<>> THEN parsed.value ELSE DefaultServiceClassPriority
       IN  IF prioStr # <<>> /\ parsed.err
           THEN /\ out' = [handler |-> "addServiceClass", name |-> name, param |-> prioStr,
                           status |-> "BadRequest", added |-> 0]
                /\ UNCHANGED serviceClasses
           ELSE /\ serviceClasses' = AddServiceClass(serviceClasses, name, priority)
                /\ out' = [handler |-> "addServiceClass", name |-> name, param |-> prioStr,
                           status |-> "OK", added |-> priority]
    /\ UNCHANGED <<accelerators, capacity, models, servers, oracle, allAllocs, allocation,
                   policy, pc, available, entries, unallocated, sat>>

NextSvc == \E name \in SvcNames, prioStr \in SvcParams : AddServiceClassRequest(name, prioStr)

SpecSvc == InitSvc /\ [][NextSvc]_vars

\* the characters of s are decimal digits, at least one
AllDigits(s) == Len(s) > 0 /\ \A i \in 1..Len(s) : s[i] \in DOMAIN DigitValue

\* ten to the power k
RECURSIVE Pow10(_)
Pow10(k) == IF k = 0 THEN 1 ELSE 10 * Pow10(k - 1)

\* the number a string of decimal digits denotes
RECURSIVE Denoted(_)
Denoted(s) ==
    IF Len(s) = 0 THEN 0
    ELSE DigitValue[s[1]] * Pow10(Len(s) - 1) + Denoted(Tail1(s))

\* the parameter s is the decimal notation of an integer, with or without sign
IsInteger(s) ==
    \/ AllDigits(s)
    \/ Len(s) > 1 /\ s[1] \in {"+", "-"} /\ AllDigits(Tail1(s))

\* the integer that s is the notation of
IntegerOf(s) ==
    IF s[1] = "-" THEN 0 - Denoted(Tail1(s))
    ELSE IF s[1] = "+" THEN Denoted(Tail1(s))
    ELSE Denoted(s)

====
